---- MODULE Spec2Model ----
(***************************************************************************)
(* mtfind: a parallel wildcard-pattern line scanner.                       *)
(*                                                                         *)
(* The module models                                                       *)
(*   - the searchers (NaiveSearcher, BoyerMooreSearcher with the           *)
(*     last-occurrence table, BoyerMooreSearcher with a comparator),       *)
(*   - RangeSplitter, RangeTokenizer and the chunk handlers,               *)
(*   - ThreadedChunkProcessor and the round_robin strategy,                *)
(*   - generate_chunk_handlers_tasks and the divide_and_conquer strategy,  *)
(*   - RangeSplitter, StreamSplitter, RangeTokenizer, ThreadedChunkProcessor *)
(*     and MultithreadedTaskProcessor driven on their own.                 *)
(*                                                                         *)
(* Bytes are integers (their character codes); a range of a text is a pair *)
(* <<begin, end>> of 0-based offsets into it, end exclusive.               *)
(***************************************************************************)
EXTENDS Integers, Sequences, FiniteSets, TLC

VARIABLES
    srch,       \* the searcher run: input, cursor `first`, results, position
    source,     \* the scanned byte source
    pattern,    \* the pattern handed to the searcher of the tokenizer
    workers,    \* workers_count of both strategy calls
    rr,         \* round_robin: producer position, reader, merge state
    procs,      \* round_robin: the ThreadedChunkProcessors (queue, stop_token_, worker)
    handlers,   \* round_robin: the ChunkHandlerBase instances (findings_)
    rrOut,      \* round_robin: calls received by the two sinks
    dc,         \* divide_and_conquer: caller position, sink loop state
    tasks,      \* divide_and_conquer: the tasks of generate_chunk_handlers_tasks
    ctxs,       \* divide_and_conquer: the HandlerCtx instances
    dcOut,      \* divide_and_conquer: the printed count and the sink calls
    split,      \* a RangeSplitter and a StreamSplitter over the same bytes
    tok,        \* a RangeTokenizer over one line
    tcp,        \* a ThreadedChunkProcessor and its caller
    mtp         \* a MultithreadedTaskProcessor and its caller

\* the components driven on their own
unitVars == <<split, tok, tcp, mtp>>

vars == <<srch, source, pattern, workers, rr, procs, handlers, rrOut, dc, tasks, ctxs, dcOut,
          split, tok, tcp, mtp>>

stratVars == <<source, pattern, workers, rr, procs, handlers, rrOut, dc, tasks, ctxs, dcOut>>

----------------------------------------------------------------------------
(* Bytes *)

CH_a == 97
CH_b == 98
CH_NL == 10
CH_QM == 63
CH_SP == 32

(* Bounds of the model *)
MaxTextLen == 6
MaxPatLen == 4
MaxSrcLen == 4
MaxScanPatLen == 2
MaxWorkers == 3
MaxSplitLen == 4
MaxLineLen == 5

Max(a, b) == IF a >= b THEN a ELSE b
Min(a, b) == IF a <= b THEN a ELSE b

SeqsUpTo(S, lo, hi) == UNION {[1..k -> S] : k \in lo..hi}

----------------------------------------------------------------------------
(* Searchers.  A comparator is the set of pairs <<text byte, pattern byte>> *)
(* it accepts; the first argument is the text byte.                         *)

\* Application::masked_pattern_comparator: [](auto c, auto p) { return '?' == p || c == p; }
masked_pattern_comparator(c, p) == p = CH_QM \/ c = p

\* operator== of the comparator-less searchers, as a comparator
EqualTo == {<<c, c>> : c \in {CH_a, CH_b, CH_NL, CH_QM}}

\* std::search(first, last, pattern.begin(), pattern.end(), comp): the first
\* position in [first, last] where the pattern is accepted element-wise, or last
StdSearch(text, pat, comp, first) ==
    LET last == Len(text)
        m == Len(pat)
        Accepts(s) == \A j \in 1..m : <<text[s + j], pat[j]>> \in comp
        hits == {s \in first..(last - m) : Accepts(s)}
    IN  IF hits = {} THEN last ELSE CHOOSE s \in hits : \A t \in hits : s <= t

\* NaiveSearcher::operator()(first, last)
NaiveSearcher(text, pat, comp, first) ==
    LET last == Len(text)
        found == StdSearch(text, pat, comp, first)
    IN  <<found, IF last # found THEN found + Len(pat) ELSE last>>

\* BoyerMooreSearcher<Pattern, void> constructor: pattern_offsets_, -1 where the
\* byte does not occur, else the 0-based index of its last occurrence
PatternOffsets(pat, c) ==
    LET occ == {i \in 0..(Len(pat) - 1) : pat[i + 1] = c}
    IN  IF occ = {} THEN -1 ELSE CHOOSE i \in occ : \A j \in occ : j <= i

\* std::mismatch(pattern.rbegin(), pattern.rend(), reverse(end_range), comp):
\* the number of pattern elements, from the right, the window at `first` accepts
MismatchRev(text, pat, comp, first) ==
    LET m == Len(pat)
        bad == {r \in 0..(m - 1) : <<text[first + m - r], pat[m - r]>> \notin comp}
    IN  IF bad = {} THEN m ELSE CHOOSE r \in bad : \A q \in bad : r <= q

\* the shift of BoyerMooreSearcher<Pattern, void> on a mismatch at pattern index
\* `offset` against the text byte c:
\*   first = std::next(first, offset - (offset > pat_offset ? pat_offset : -1))
TableShift(pat, offset, c) ==
    LET pat_offset == PatternOffsets(pat, c)
    IN  offset - (IF offset > pat_offset THEN pat_offset ELSE -1)

\* a shift that always moves the window past the offending text byte
ComparatorShiftPastByte(pat, comp, r, c) == Len(pat) - r

\* the shift of BoyerMooreSearcher<Pattern, Comparator> on a mismatch at reverse
\* position r against the text byte c: pat_rit2 runs from r + 1 while the
\* comparator rejects c; the shift is std::distance(mism.first, pat_rit2)
ComparatorShift(pat, comp, r, c) ==
    LET m == Len(pat)
        ok == {q \in (r + 1)..(m - 1) : <<c, pat[m - q]>> \in comp}
        r2 == IF ok = {} THEN m ELSE CHOOSE q \in ok : \A t \in ok : q <= t
    IN  r2 - r

\* a not-found result anchored at the cursor instead of at the end of the range
NotFoundAtCursor(first, last) == <<first, first>>

\* return boost::make_iterator_range(last, last)
NotFoundRange(first, last) == <<last, last>>

\* one pass of the body of BoyerMooreSearcher<Pattern, void>::operator(), from the
\* cursor `first`: either the returned range or the advanced cursor
TableSearchPass(text, pat, first) ==
    LET last == Len(text)
        m == Len(pat)
        r == MismatchRev(text, pat, EqualTo, first)
        offset == (m - r) - 1
    IN  IF m = 0 THEN [ret |-> TRUE, first |-> first, range |-> <<first, first>>]
        ELSE IF ~(m <= last - first)
             THEN [ret |-> TRUE, first |-> first, range |-> NotFoundRange(first, last)]
        ELSE IF r # m
             THEN [ret |-> FALSE,
                   first |-> first + TableShift(pat, offset, text[first + offset + 1]),
                   range |-> <<-1, -1>>]
        ELSE [ret |-> TRUE, first |-> first, range |-> <<first, first + m>>]

\* one pass of the body of BoyerMooreSearcher<Pattern, Comparator>::operator()
ComparatorSearchPass(text, pat, comp, first) ==
    LET last == Len(text)
        m == Len(pat)
        r == MismatchRev(text, pat, comp, first)
    IN  IF m = 0 THEN [ret |-> TRUE, first |-> first, range |-> <<first, first>>]
        ELSE IF ~(m <= last - first)
             THEN [ret |-> TRUE, first |-> first, range |-> NotFoundRange(first, last)]
        ELSE IF r # m
             THEN [ret |-> FALSE,
                   first |-> first + ComparatorShift(pat, comp, r, text[first + m - r]),
                   range |-> <<-1, -1>>]
        ELSE [ret |-> TRUE, first |-> first, range |-> <<first, first + m>>]

----------------------------------------------------------------------------
(* The searcher run: one text, one pattern; the naive searcher is applied,  *)
(* then the Boyer-Moore searcher of the same kind pass by pass.             *)

TextBytes == {CH_a, CH_b}
LiteralPatBytes == {CH_a, CH_b}
MaskedPatBytes == {CH_a, CH_QM}

SrchOff == [kind |-> "off", text |-> <<>>, pat |-> <<>>, comp |-> {},
            pc |-> "off", first |-> 0, passes |-> 0,
            naive |-> <<-1, -1>>, bm |-> <<-1, -1>>]

SrchInit ==
    \E text \in SeqsUpTo(TextBytes, 0, MaxTextLen) :
        \/ \E pat \in SeqsUpTo(LiteralPatBytes, 0, MaxPatLen) :
              srch = [SrchOff EXCEPT !.kind = "literal", !.text = text, !.pat = pat,
                                     !.comp = EqualTo, !.pc = "naive"]
        \/ \E pat \in SeqsUpTo(MaskedPatBytes, 0, MaxPatLen) :
           \E comp \in SUBSET (TextBytes \X MaskedPatBytes) :
              srch = [SrchOff EXCEPT !.kind = "comp", !.text = text, !.pat = pat,
                                     !.comp = comp, !.pc = "naive"]

NaiveApply ==
    /\ srch.pc = "naive"
    /\ srch' = [srch EXCEPT !.naive = NaiveSearcher(srch.text, srch.pat, srch.comp, 0),
                            !.pc = "bm"]
    /\ UNCHANGED <<stratVars, unitVars>>

BMTablePass ==
    /\ srch.pc = "bm"
    /\ srch.kind = "literal"
    /\ LET p == TableSearchPass(srch.text, srch.pat, srch.first)
       IN  srch' = [srch EXCEPT !.first = p.first, !.bm = p.range,
                                !.passes = @ + 1,
                                !.pc = IF p.ret THEN "done" ELSE "bm"]
    /\ UNCHANGED <<stratVars, unitVars>>

BMComparatorPass ==
    /\ srch.pc = "bm"
    /\ srch.kind = "comp"
    /\ LET p == ComparatorSearchPass(srch.text, srch.pat, srch.comp, srch.first)
       IN  srch' = [srch EXCEPT !.first = p.first, !.bm = p.range,
                                !.passes = @ + 1,
                                !.pc = IF p.ret THEN "done" ELSE "bm"]
    /\ UNCHANGED <<stratVars, unitVars>>

UnitsOff ==
    /\ split = [pc |-> "off"] /\ tok = [pc |-> "off"]
    /\ tcp = [pc |-> "off"] /\ mtp = [pc |-> "off"]

StratOff ==
    /\ source = <<>> /\ pattern = <<>> /\ workers = 0
    /\ rr = [pc |-> "off"] /\ procs = <<>> /\ handlers = <<>> /\ rrOut = <<>>
    /\ dc = [pc |-> "off"] /\ tasks = <<>> /\ ctxs = <<>> /\ dcOut = <<>>

InitSearch == SrchInit /\ StratOff /\ UnitsOff

NextSearch == NaiveApply \/ BMTablePass \/ BMComparatorPass

SpecSearch == InitSearch /\ [][NextSearch]_vars

----------------------------------------------------------------------------
(* The last-occurrence table of BoyerMooreSearcher<Pattern, void> over      *)
(* bytes below and above 0x80: the constructor fills pattern_offsets_ byte   *)
(* by byte, then the searcher runs pass by pass.  Whether char is signed is  *)
(* the build's choice.                                                       *)

CH_HI == 128
kMaxChars == 256
MaxTblTextLen == 3
MaxTblPatLen == 2

TblBytes == {CH_a, CH_HI}

\* the value of a char that holds the byte b
CharValue(b, char_signed) == IF char_signed /\ b >= 128 THEN b - 256 ELSE b

\* the element of pattern_offsets_ that operator[] is applied to for the char
\* that holds b, counted from the start of the array: the char is converted
\* to size_type and the element address computed modulo the address width,
\* which for a negative char is that many elements before the array
TableIndex(b, char_signed) == CharValue(b, char_signed)

InRange(idx) == idx >= 0 /\ idx < kMaxChars

\* what a read outside pattern_offsets_ can yield
GarbageValues == {-(MaxTblTextLen + 1), -1, MaxTblPatLen}

TblInit ==
    \E text \in SeqsUpTo(TblBytes, 0, MaxTblTextLen) :
    \E pat \in SeqsUpTo(TblBytes, 0, MaxTblPatLen) :
    \E char_signed \in BOOLEAN :
        srch = [kind |-> "table", text |-> text, pat |-> pat, comp |-> EqualTo,
                pc |-> "ctor", first |-> 0, passes |-> 0,
                naive |-> <<-1, -1>>, bm |-> <<-1, -1>>,
                char_signed |-> char_signed, i |-> 0,
                pattern_offsets_ |-> [b \in TblBytes |-> -1],
                used |-> <<>>]

\* the constructor: pattern_offsets_.fill(-1), then one turn of
\* pattern_offsets_[pattern_[i]] = i; a write outside the array leaves the
\* array as it is
TableFill ==
    /\ srch.kind = "table"
    /\ srch.pc = "ctor"
    /\ IF srch.i < Len(srch.pat)
       THEN LET idx == TableIndex(srch.pat[srch.i + 1], srch.char_signed)
            IN  srch' = [srch EXCEPT !.i = @ + 1,
                                     !.used = Append(@, idx),
                                     !.pattern_offsets_ =
                                        IF InRange(idx)
                                        THEN [@ EXCEPT ![idx] = srch.i]
                                        ELSE @]
       ELSE srch' = [srch EXCEPT !.pc = "bm"]
    /\ UNCHANGED <<stratVars, unitVars>>

\* one pass of operator() with the table as the constructor left it; a read
\* outside the array yields any value; the loop condition compares size() with
\* the distance as unsigned numbers, so that a cursor behind the end of the
\* text passes it and the window is read outside the text
TableLookupPass ==
    /\ srch.kind = "table"
    /\ srch.pc = "bm"
    /\ LET last == Len(srch.text)
           m == Len(srch.pat)
       IN  IF m = 0
           THEN srch' = [srch EXCEPT !.bm = <<srch.first, srch.first>>,
                                     !.passes = @ + 1, !.pc = "done"]
           ELSE IF srch.first > last
           THEN srch' = [srch EXCEPT !.passes = @ + 1, !.pc = "outside"]
           ELSE IF ~(m <= last - srch.first)
           THEN srch' = [srch EXCEPT !.bm = NotFoundRange(srch.first, last),
                                     !.passes = @ + 1, !.pc = "done"]
           ELSE LET r == MismatchRev(srch.text, srch.pat, EqualTo, srch.first)
                    offset == (m - r) - 1
                IN  IF r = m
                    THEN srch' = [srch EXCEPT !.bm = <<srch.first, srch.first + m>>,
                                              !.passes = @ + 1, !.pc = "done"]
                    ELSE LET idx == TableIndex(srch.text[srch.first + offset + 1],
                                               srch.char_signed)
                         IN  \E pat_offset \in (IF InRange(idx)
                                                 THEN {srch.pattern_offsets_[idx]}
                                                 ELSE GarbageValues) :
                                srch' = [srch EXCEPT
                                    !.first = @ + (offset - (IF offset > pat_offset
                                                             THEN pat_offset ELSE -1)),
                                    !.used = Append(@, idx),
                                    !.passes = @ + 1]
    /\ UNCHANGED <<stratVars, unitVars>>

InitTable == TblInit /\ StratOff /\ UnitsOff

NextTable == TableFill \/ TableLookupPass

SpecTable == InitTable /\ [][NextTable]_vars

----------------------------------------------------------------------------
(* Splitter, tokenizer and chunk handlers *)

\* std::find(first, last, c) over the 0-based offsets of text: the first offset
\* in [first, last) holding c, or last
StdFind(text, first, last, c) ==
    LET at == {i \in first..(last - 1) : text[i + 1] = c}
    IN  IF at = {} THEN last ELSE CHOOSE i \in at : \A j \in at : i <= j

\* a splitter that leaves the delimiter at the end of the token
RangeSplitterKeepDelim(text, last_, current_pos_, delim_) ==
    LET eorange_ == (last_ = current_pos_)
        end_of_part_pos == StdFind(text, current_pos_, last_, delim_)
        next_pos == IF last_ # end_of_part_pos THEN end_of_part_pos + 1 ELSE end_of_part_pos
    IN  IF ~eorange_
        THEN [token |-> SubSeq(text, current_pos_ + 1, next_pos),
              current_pos_ |-> next_pos, eorange_ |-> FALSE]
        ELSE [token |-> <<>>, current_pos_ |-> current_pos_, eorange_ |-> TRUE]

\* RangeSplitter::operator()() over [.., last_) with the cursor current_pos_:
\* the token, the advanced cursor and eorange_
RangeSplitterCall(text, last_, current_pos_, delim_) ==
    LET eorange_ == (last_ = current_pos_)
        end_of_part_pos == StdFind(text, current_pos_, last_, delim_)
    IN  IF ~eorange_
        THEN [token |-> SubSeq(text, current_pos_ + 1, end_of_part_pos),
              current_pos_ |-> IF last_ # end_of_part_pos
                               THEN end_of_part_pos + 1 ELSE end_of_part_pos,
              eorange_ |-> FALSE]
        ELSE [token |-> <<>>, current_pos_ |-> current_pos_, eorange_ |-> TRUE]

\* the comparator the application hands to the searcher of the tokenizer
ScanComparator ==
    {cp \in {CH_a, CH_b, CH_NL} \X {CH_a, CH_b, CH_QM} : masked_pattern_comparator(cp[1], cp[2])}

RECURSIVE BoyerMooreSearcher(_, _, _, _)
\* BoyerMooreSearcher<Pattern, Comparator>::operator()(first, last): the passes
\* of the while loop up to the return
BoyerMooreSearcher(text, pat, comp, first) ==
    LET p == ComparatorSearchPass(text, pat, comp, first)
    IN  IF p.ret THEN p.range ELSE BoyerMooreSearcher(text, pat, comp, p.first)

\* a loop that calls the searcher also when the range is used up
TokenizerLoopAlways(first, last) == TRUE

\* the condition of the loop of RangeTokenizer::operator(): first != last
TokenizerLoopCond(first, last) == first # last

\* a tokenizer that resumes one byte behind the begin of the token
ResumeBehindBegin(token) == token[1] + 1

\* first = token.end()
ResumeAt(token) == token[2]

\* a test that takes no token for empty
TokenEmptyNever(token) == FALSE

\* token.empty()
TokenEmpty(token) == token[1] = token[2]

RECURSIVE RangeTokenizer(_, _, _)
\* RangeTokenizer::operator()(first, last, out): the tokens written to out
RangeTokenizer(chunk, pat, first) ==
    IF ~TokenizerLoopCond(first, Len(chunk)) THEN <<>>
    ELSE LET token == BoyerMooreSearcher(chunk, pat, ScanComparator, first)
         IN  IF TokenEmpty(token) THEN <<>>
             ELSE <<token>> \o RangeTokenizer(chunk, pat, ResumeAt(token))

\* a handler that keeps the distance of a token as its offset
ChunkHandlerBaseCallDistance(pat, chunk_idx, chunk_value) ==
    LET tokens == RangeTokenizer(chunk_value, pat, 0)
    IN  [k \in 1..Len(tokens) |->
            <<chunk_idx + 1, tokens[k][1], SubSeq(chunk_value, tokens[k][1] + 1, tokens[k][2])>>]

\* a handler that tags a finding with the chunk index itself
ChunkHandlerBaseCallZeroBased(pat, chunk_idx, chunk_value) ==
    LET tokens == RangeTokenizer(chunk_value, pat, 0)
    IN  [k \in 1..Len(tokens) |->
            <<chunk_idx, tokens[k][1] + 1, SubSeq(chunk_value, tokens[k][1] + 1, tokens[k][2])>>]

\* ChunkHandlerBase::operator()(chunk_idx, chunk_value): the tuples pushed to
\* findings_, (chunk_idx + 1, distance(first, token.begin()) + 1, token bytes)
ChunkHandlerBaseCall(pat, chunk_idx, chunk_value) ==
    LET tokens == RangeTokenizer(chunk_value, pat, 0)
    IN  [k \in 1..Len(tokens) |->
            <<chunk_idx + 1, tokens[k][1] + 1, SubSeq(chunk_value, tokens[k][1] + 1, tokens[k][2])>>]

\* a context that keeps the distance of a token as its offset
ConsumeDistance(chunk_idx, chunk_value, tokens) ==
    <<chunk_idx + 1,
      [k \in 1..Len(tokens) |->
            <<tokens[k][1], SubSeq(chunk_value, tokens[k][1] + 1, tokens[k][2])>>]>>

\* ChunkHandlerCtx::consume(chunk_idx, first, findings): the entry pushed to
\* chunks_findings_, (chunk_idx + 1, [(distance + 1, bytes)])
Consume(chunk_idx, chunk_value, tokens) ==
    <<chunk_idx + 1,
      [k \in 1..Len(tokens) |->
            <<tokens[k][1] + 1, SubSeq(chunk_value, tokens[k][1] + 1, tokens[k][2])>>]>>

\* a handler that records the index of the chunk, not the number of chunks seen
SetLastChunkIdxSame(chunk_idx) == chunk_idx

\* HandlerCtx::set_last_chunk_idx
SetLastChunkIdx(chunk_idx) == chunk_idx + 1

\* a default-constructed HandlerCtx; `writers` keeps the tasks whose handler
\* has written the context
NewHandlerCtx == [chunks_findings |-> <<>>, last_chunk_idx |-> 0, writers |-> {}]

\* a chunk handler that sets last_chunk_idx only for a chunk with a match
DCHandlerCallOnMatch(ctx, pat, chunk_idx, chunk_value) ==
    LET tokens == RangeTokenizer(chunk_value, pat, 0)
    IN  IF chunk_value # <<>> /\ tokens # <<>>
        THEN [chunks_findings |-> Append(ctx.chunks_findings,
                                         Consume(chunk_idx, chunk_value, tokens)),
              last_chunk_idx |-> SetLastChunkIdx(chunk_idx),
              writers |-> ctx.writers]
        ELSE ctx

\* the chunk handler of divide_and_conquer (the lambda of chunk_handler_generator)
\* applied to the context ctx
DCHandlerCall(ctx, pat, chunk_idx, chunk_value) ==
    LET tokens == RangeTokenizer(chunk_value, pat, 0)
        consumed == IF chunk_value # <<>> /\ tokens # <<>>
                    THEN Append(ctx.chunks_findings, Consume(chunk_idx, chunk_value, tokens))
                    ELSE ctx.chunks_findings
    IN  [chunks_findings |-> consumed, last_chunk_idx |-> SetLastChunkIdx(chunk_idx),
         writers |-> ctx.writers]

----------------------------------------------------------------------------
(* round_robin(reader, tokenizer, findings_number_sink, findings_sink,      *)
(* workers_count) over a RangeSplitter of the source.                        *)

SrcBytes == {CH_a, CH_b, CH_NL}
LineBytes == {CH_a, CH_NL}
ScanPatBytes == {CH_a, CH_QM}

\* the sources scanned: every byte sequence up to MaxSrcLen, and the sequences
\* one byte longer that are made of the byte 'a' and the delimiter
Sources ==
    SeqsUpTo(SrcBytes, 0, MaxSrcLen) \cup SeqsUpTo(LineBytes, MaxSrcLen + 1, MaxSrcLen + 1)

\* capacity of the spsc_queue of a ThreadedChunkProcessor (kQueueCapacity,
\* 32768 by default), scaled down
QueueCapacity == 2

\* workers_count = std::max(static_cast<size_t>(1), workers_count)
WorkersCount(n) == Max(1, n)

W == WorkersCount(workers)

\* auto const processors_count = workers_count - 1
ProcessorsCount == W - 1

\* the thread that called the strategy; the worker of processor p is thread p
CallerThread == 0

NewHandler == [findings_ |-> <<>>, calls |-> <<>>, threads |-> {}]

\* a handler that puts the findings of a chunk in front of the earlier ones
HandlerCallPushFront(h, chunk_idx, chunk_value) ==
    [findings_ |-> ChunkHandlerBaseCall(pattern, chunk_idx, chunk_value) \o h.findings_,
     calls |-> Append(h.calls, chunk_idx),
     threads |-> h.threads]

\* the chunk handler h applied to (chunk_idx, chunk_value); `calls` keeps the
\* indices the handler was invoked with, `threads` the threads that invoked it
HandlerCall(h, chunk_idx, chunk_value) ==
    [findings_ |-> h.findings_ \o ChunkHandlerBaseCall(pattern, chunk_idx, chunk_value),
     calls |-> Append(h.calls, chunk_idx),
     threads |-> h.threads]

\* a generator that never advances cur_handler
RRChunkHandlerGeneratorSame(k) == 1

\* the k-th call of chunk_handler_generator of round_robin: std::ref(*cur_handler++)
RRChunkHandlerGenerator(k) == k

\* the state at the call of round_robin; throws_at holds the chunk indices on
\* which the chunk handler throws
RRInitThrowing(fs) ==
    /\ rr = [pc |-> IF W < 2 THEN "handle" ELSE "start",
             current_pos_ |-> 0, eorange_ |-> FALSE, chunk_idx |-> 0,
             cur_proc |-> 1, i |-> 1, result_ranges |-> <<>>,
             throws_at |-> fs]
    /\ procs = [p \in 1..ProcessorsCount |->
                    [queue_ |-> <<>>, stop_token_ |-> FALSE, worker_ |-> "none",
                     handler |-> RRChunkHandlerGenerator(p)]]
    /\ handlers = [h \in 1..W |-> NewHandler]
    /\ rrOut = <<>>

\* round_robin with a chunk handler that does not throw
RRInit == RRInitThrowing({})

\* ThreadedChunkProcessor::start() of processor rr.i, in the loop of process_rr
RRStart ==
    /\ rr.pc = "start"
    /\ procs' = [procs EXCEPT ![rr.i].worker_ =
                    IF ~procs[rr.i].stop_token_ THEN "loop" ELSE @]
    /\ rr' = IF rr.i = ProcessorsCount
             THEN [rr EXCEPT !.pc = "feed", !.i = 1]
             ELSE [rr EXCEPT !.i = @ + 1]
    /\ UNCHANGED <<unitVars, srch, source, pattern, workers, handlers, rrOut, dc, tasks, ctxs, dcOut>>

\* an rr_handler that never moves to the next processor
NextProcStay(cur_proc) == cur_proc

\* rr_handler: ++cur_proc; if (processors.end() == cur_proc) cur_proc = processors.begin()
NextProc(cur_proc) == IF cur_proc = ProcessorsCount THEN 1 ELSE cur_proc + 1

\* one turn of the loop of handle_rr with rr_handler: the reader is called and
\* the chunk is pushed to the current processor (the push is retried while the
\* queue is full), or the reader is exhausted and the loop ends
RRFeed ==
    /\ rr.pc = "feed"
    /\ LET r == RangeSplitterCall(source, Len(source), rr.current_pos_, CH_NL)
       IN  IF r.eorange_
           THEN /\ rr' = [rr EXCEPT !.eorange_ = TRUE, !.pc = "stop", !.i = 1]
                /\ UNCHANGED procs
           ELSE /\ Len(procs[rr.cur_proc].queue_) < QueueCapacity
                /\ procs' = [procs EXCEPT ![rr.cur_proc].queue_ =
                                Append(@, [idx |-> rr.chunk_idx, value |-> r.token])]
                /\ rr' = [rr EXCEPT !.current_pos_ = r.current_pos_,
                                    !.chunk_idx = @ + 1,
                                    !.cur_proc = NextProc(@)]
    /\ UNCHANGED <<unitVars, srch, source, pattern, workers, handlers, rrOut, dc, tasks, ctxs, dcOut>>

\* one turn of the loop of handle_rr with the handler itself (workers_count < 2);
\* an exception of the handler leaves round_robin
RRHandle ==
    /\ rr.pc = "handle"
    /\ LET r == RangeSplitterCall(source, Len(source), rr.current_pos_, CH_NL)
       IN  IF r.eorange_
           THEN /\ rr' = [rr EXCEPT !.eorange_ = TRUE, !.pc = "count"]
                /\ UNCHANGED handlers
           ELSE IF rr.chunk_idx \in rr.throws_at
                THEN /\ rr' = [rr EXCEPT !.current_pos_ = r.current_pos_, !.pc = "failed"]
                     /\ UNCHANGED handlers
                ELSE /\ handlers' = [handlers EXCEPT ![RRChunkHandlerGenerator(1)] =
                                        [HandlerCall(@, rr.chunk_idx, r.token)
                                            EXCEPT !.threads = @ \cup {CallerThread}]]
                     /\ rr' = [rr EXCEPT !.current_pos_ = r.current_pos_, !.chunk_idx = @ + 1]
    /\ UNCHANGED <<unitVars, srch, source, pattern, workers, procs, rrOut, dc, tasks, ctxs, dcOut>>

\* a stop() that waits for the worker without setting the token
RRStopNoToken ==
    /\ rr.pc = "stop"
    /\ rr' = [rr EXCEPT !.pc = "join"]
    /\ UNCHANGED <<unitVars, srch, source, pattern, workers, procs, handlers, rrOut, dc, tasks, ctxs, dcOut>>

\* ThreadedChunkProcessor::stop() of processor rr.i: stop_token_ = true
RRStopSet ==
    /\ rr.pc = "stop"
    /\ IF procs[rr.i].worker_ # "none"
       THEN /\ procs' = [procs EXCEPT ![rr.i].stop_token_ = TRUE]
            /\ rr' = [rr EXCEPT !.pc = "join"]
       ELSE /\ UNCHANGED procs
            /\ rr' = IF rr.i = ProcessorsCount
                     THEN [rr EXCEPT !.pc = "count"]
                     ELSE [rr EXCEPT !.i = @ + 1]
    /\ UNCHANGED <<unitVars, srch, source, pattern, workers, handlers, rrOut, dc, tasks, ctxs, dcOut>>

\* a stop() that sets the token and does not wait for the worker
RRStopNoJoin ==
    /\ rr.pc = "join"
    /\ rr' = IF rr.i = ProcessorsCount
             THEN [rr EXCEPT !.pc = "count"]
             ELSE [rr EXCEPT !.pc = "stop", !.i = @ + 1]
    /\ UNCHANGED <<unitVars, srch, source, pattern, workers, procs, handlers, rrOut, dc, tasks, ctxs, dcOut>>

\* ThreadedChunkProcessor::stop() of processor rr.i: worker_.get() returns once
\* the worker has exited, then stop_token_ = false; if the worker has ended by
\* an exception, worker_.get() rethrows it, stop() and the stop loop are left
\* and the scope exit of process_rr begins
RRStopJoin ==
    /\ rr.pc = "join"
    /\ procs[rr.i].worker_ \in {"exited", "threw"}
    /\ IF procs[rr.i].worker_ = "exited"
       THEN /\ procs' = [procs EXCEPT ![rr.i].stop_token_ = FALSE, ![rr.i].worker_ = "none"]
            /\ rr' = IF rr.i = ProcessorsCount
                     THEN [rr EXCEPT !.pc = "count"]
                     ELSE [rr EXCEPT !.pc = "stop", !.i = @ + 1]
       ELSE /\ procs' = [procs EXCEPT ![rr.i].worker_ = "none"]
            /\ rr' = [rr EXCEPT !.pc = "unwind", !.i = 1]
    /\ UNCHANGED <<unitVars, srch, source, pattern, workers, handlers, rrOut, dc, tasks, ctxs, dcOut>>

\* the worker of processor p, in `while (!stop_token_)`: a chunk is popped and
\* handled; an exception of the handler ends the worker
WorkerPop(p) ==
    /\ procs[p].worker_ = "loop"
    /\ procs[p].queue_ # <<>>
    /\ LET chunk == Head(procs[p].queue_)
       IN  IF chunk.idx \in rr.throws_at
           THEN /\ procs' = [procs EXCEPT ![p].queue_ = Tail(@), ![p].worker_ = "threw"]
                /\ UNCHANGED handlers
           ELSE /\ procs' = [procs EXCEPT ![p].queue_ = Tail(@)]
                /\ handlers' = [handlers EXCEPT ![procs[p].handler] =
                                        [HandlerCall(@, chunk.idx, chunk.value)
                                            EXCEPT !.threads = @ \cup {p}]]
    /\ UNCHANGED <<unitVars, srch, source, pattern, workers, rr, rrOut, dc, tasks, ctxs, dcOut>>

\* the worker of processor p reads stop_token_ as true and leaves the first loop
WorkerSeeStop(p) ==
    /\ procs[p].worker_ = "loop"
    /\ procs[p].stop_token_
    /\ procs' = [procs EXCEPT ![p].worker_ = "drain"]
    /\ UNCHANGED <<unitVars, srch, source, pattern, workers, rr, handlers, rrOut, dc, tasks, ctxs, dcOut>>

\* the worker of processor p, in `while (queue_.pop(chunk))`: a chunk is popped
\* and handled, or the queue is empty and the worker exits
WorkerDrain(p) ==
    /\ procs[p].worker_ = "drain"
    /\ IF procs[p].queue_ # <<>>
       THEN LET chunk == Head(procs[p].queue_)
            IN  IF chunk.idx \in rr.throws_at
                THEN /\ procs' = [procs EXCEPT ![p].queue_ = Tail(@), ![p].worker_ = "threw"]
                     /\ UNCHANGED handlers
                ELSE /\ procs' = [procs EXCEPT ![p].queue_ = Tail(@)]
                     /\ handlers' = [handlers EXCEPT ![procs[p].handler] =
                                        [HandlerCall(@, chunk.idx, chunk.value)
                                            EXCEPT !.threads = @ \cup {p}]]
       ELSE /\ procs' = [procs EXCEPT ![p].worker_ = "exited"]
            /\ UNCHANGED handlers
    /\ UNCHANGED <<unitVars, srch, source, pattern, workers, rr, rrOut, dc, tasks, ctxs, dcOut>>

RECURSIVE SumLen(_, _)
SumLen(hs, n) == IF n = 0 THEN 0 ELSE Len(hs[n].findings_) + SumLen(hs, n - 1)

\* the number of chunks that hold a finding, instead of the number of findings
FindingsNumberChunks(hs) ==
    Cardinality(UNION {{<<h, hs[h].findings_[k][1]>> : k \in DOMAIN hs[h].findings_} :
                       h \in DOMAIN hs})

\* boost::accumulate(handlers, 0, sum + handler.findings().size())
FindingsNumber(hs) == SumLen(hs, Len(hs))

\* result_ranges that hold the range of the first handler only
ResultRangesFirst(hs) ==
    SelectSeq(<<[h |-> 1, first |-> 1, second |-> Len(hs[1].findings_) + 1]>>,
              LAMBDA g : g.first # g.second)

\* result_ranges after boost::transform and remove_erase_if: for each handler
\* with findings, in order, the pair (begin, end) as [h, first, second]
ResultRanges(hs) ==
    LET all == [h \in 1..Len(hs) |-> [h |-> h, first |-> 1, second |-> Len(hs[h].findings_) + 1]]
    IN  SelectSeq(all, LAMBDA g : g.first # g.second)

\* a merge that always takes the first range left
MinElementFront(ranges, hs) == 1

\* boost::min_element(result_ranges, comparing std::get<0> of the heads): the
\* index of the first range whose head has the least chunk index
MinElement(ranges, hs) ==
    LET key(k) == hs[ranges[k].h].findings_[ranges[k].first][1]
    IN  CHOOSE k \in 1..Len(ranges) :
            /\ \A j \in 1..Len(ranges) : key(k) <= key(j)
            /\ \A j \in 1..(k - 1) : key(j) > key(k)

\* a round_robin that sets result_ranges up without calling findings_number_sink
RRCountSilent ==
    /\ rr.pc = "count"
    /\ LET ranges == ResultRanges(handlers)
       IN  rr' = [rr EXCEPT !.result_ranges = ranges,
                            !.pc = IF ranges = <<>> THEN "done" ELSE "merge"]
    /\ UNCHANGED <<unitVars, srch, source, pattern, workers, procs, handlers, rrOut, dc, tasks, ctxs, dcOut>>

\* findings_number_sink(...) and the set-up of result_ranges
RRCount ==
    /\ rr.pc = "count"
    /\ rrOut' = Append(rrOut, [sink |-> "number", n |-> FindingsNumber(handlers)])
    /\ LET ranges == ResultRanges(handlers)
       IN  rr' = [rr EXCEPT !.result_ranges = ranges,
                            !.pc = IF ranges = <<>> THEN "done" ELSE "merge"]
    /\ UNCHANGED <<unitVars, srch, source, pattern, workers, procs, handlers, dc, tasks, ctxs, dcOut>>

\* one turn of the merge loop: the least head is sent to findings_sink and its
\* range advanced; an exhausted range is overwritten by the last one and popped
RRMerge ==
    /\ rr.pc = "merge"
    /\ LET ranges == rr.result_ranges
           k == MinElement(ranges, handlers)
           it == ranges[k]
           advanced == [ranges EXCEPT ![k].first = @ + 1]
           left == IF it.first + 1 = it.second
                   THEN SubSeq([advanced EXCEPT ![k] = advanced[Len(advanced)]],
                               1, Len(advanced) - 1)
                   ELSE advanced
       IN  /\ rrOut' = Append(rrOut, [sink |-> "finding",
                                      f |-> handlers[it.h].findings_[it.first]])
           /\ rr' = [rr EXCEPT !.result_ranges = left,
                               !.pc = IF left = <<>> THEN "done" ELSE "merge"]
    /\ UNCHANGED <<unitVars, srch, source, pattern, workers, procs, handlers, dc, tasks, ctxs, dcOut>>

\* the scope exit of process_rr while the exception of a worker propagates:
\* the destructor of processor rr.i.  The destructor of a future whose worker
\* still runs waits for that worker; after the last one the exception leaves
\* round_robin.
RRUnwind ==
    /\ rr.pc = "unwind"
    /\ procs[rr.i].worker_ \in {"none", "exited", "threw"}
    /\ procs' = [procs EXCEPT ![rr.i].worker_ = "none"]
    /\ rr' = IF rr.i = ProcessorsCount
             THEN [rr EXCEPT !.pc = "failed"]
             ELSE [rr EXCEPT !.i = @ + 1]
    /\ UNCHANGED <<unitVars, srch, source, pattern, workers, handlers, rrOut, dc, tasks, ctxs, dcOut>>

RRNext ==
    \/ RRStart \/ RRFeed \/ RRHandle \/ RRStopSet \/ RRStopJoin
    \/ RRCount \/ RRMerge
    \/ \E p \in 1..ProcessorsCount : WorkerPop(p) \/ WorkerSeeStop(p) \/ WorkerDrain(p)

----------------------------------------------------------------------------
(* divide_and_conquer(first, last, tokenizer, findings_sink, workers_count)  *)
(* over the same source, called after round_robin has returned.              *)

\* a partition that leaves the delimiters at the cut to the next range
SkipDelimsNot(text, last) == last

RECURSIVE SkipDelims(_, _)
\* while (end != last && *last == '\n') ++last
SkipDelims(text, last) ==
    IF Len(text) # last /\ text[last + 1] = CH_NL THEN SkipDelims(text, last + 1) ELSE last

\* find_next_nl(first)
FindNextNl(text, first, data_chunk_size) ==
    StdFind(text, first + Min(data_chunk_size, Len(text) - first), Len(text), CH_NL)

RECURSIVE TaskRanges(_, _, _, _, _)
\* the loop of generate_chunk_handlers_tasks: the ranges [first, last) of the tasks
TaskRanges(text, first, data_chunk_i, tasks_number, data_chunk_size) ==
    IF first = Len(text) THEN <<>>
    ELSE LET cut == IF data_chunk_i < tasks_number - 1
                    THEN FindNextNl(text, first, data_chunk_size)
                    ELSE Len(text)
             last == SkipDelims(text, cut)
         IN  <<[first |-> first, last |-> last]>>
             \o TaskRanges(text, last, data_chunk_i + 1, tasks_number, data_chunk_size)

\* a partition loop that makes a task before it tests first != end
GenerateChunkHandlersTasksDoWhile(text, tasks_number) ==
    IF tasks_number = 0 THEN <<>>
    ELSE IF text = <<>> THEN <<[first |-> 0, last |-> 0]>>
    ELSE LET data_chunk_size == IF Len(text) \div tasks_number = 0
                                THEN 1 ELSE Len(text) \div tasks_number
         IN  TaskRanges(text, 0, 0, tasks_number, data_chunk_size)

\* generate_chunk_handlers_tasks(start, end, tasks_number, handler_generator, true)
GenerateChunkHandlersTasks(text, tasks_number) ==
    IF tasks_number = 0 THEN <<>>
    ELSE LET data_chunk_size == IF Len(text) \div tasks_number = 0
                                THEN 1 ELSE Len(text) \div tasks_number
         IN  TaskRanges(text, 0, 0, tasks_number, data_chunk_size)

\* the context of the handler that the k-th call of chunk_handler_generator of
\* divide_and_conquer returns: &ctx = *ctx_it++
DCChunkHandlerGenerator(k) == k

\* the state before the call of divide_and_conquer; throws_at holds the
\* offsets in the source of the chunks on which the chunk handler throws
DCIdleThrowing(fs) ==
    /\ dc = [pc |-> "idle", next |-> 1, ctx |-> 1, at |-> 1, chunk_offset |-> 0,
             throws_at |-> fs]
    /\ tasks = <<>>
    /\ ctxs = <<>>
    /\ dcOut = <<>>

\* divide_and_conquer with a chunk handler that does not throw
DCIdle == DCIdleThrowing({})

\* handlers_ctxs, the tasks and task_processor.run()
DCBegin ==
    /\ rr.pc = "done"
    /\ dc.pc = "idle"
    /\ ctxs' = [c \in 1..W |-> NewHandlerCtx]
    /\ LET ranges == GenerateChunkHandlersTasks(source, W)
       IN  /\ tasks' = [t \in 1..Len(ranges) |->
                            [first |-> ranges[t].first, last |-> ranges[t].last,
                             current_pos_ |-> ranges[t].first, chunk_idx |-> 0,
                             st |-> "new", ctx |-> DCChunkHandlerGenerator(t)]]
           /\ dc' = [dc EXCEPT !.pc = IF ranges = <<>> THEN "wait" ELSE "post"]
    /\ UNCHANGED <<unitVars, srch, source, pattern, workers, rr, procs, handlers, rrOut, dcOut>>

\* task_processor(std::move(task)) for the next task: io_.post
DCPost ==
    /\ dc.pc = "post"
    /\ tasks' = [tasks EXCEPT ![dc.next].st = "posted"]
    /\ dc' = IF dc.next = Len(tasks)
             THEN [dc EXCEPT !.pc = "wait"]
             ELSE [dc EXCEPT !.next = @ + 1]
    /\ UNCHANGED <<unitVars, srch, source, pattern, workers, rr, procs, handlers, rrOut, ctxs, dcOut>>

\* a worker of the task processor takes the oldest posted task; a worker
\* whose task has thrown has left io_.run() and takes no further task
TaskStart(t) ==
    /\ tasks[t].st = "posted"
    /\ \A u \in 1..(t - 1) : tasks[u].st \in {"running", "done", "threw"}
    /\ Cardinality({u \in 1..Len(tasks) : tasks[u].st \in {"running", "threw"}}) < W
    /\ tasks' = [tasks EXCEPT ![t].st = "running"]
    /\ UNCHANGED <<unitVars, srch, source, pattern, workers, rr, procs, handlers, rrOut, dc, ctxs, dcOut>>

\* one turn of the loop of task t: the chunk reader is called and the chunk,
\* empty or not, handed to the handler of the task; or the reader is
\* exhausted; an exception of the handler ends the task and its worker
TaskStep(t) ==
    /\ tasks[t].st = "running"
    /\ LET r == RangeSplitterCall(source, tasks[t].last, tasks[t].current_pos_, CH_NL)
       IN  IF r.eorange_
           THEN /\ tasks' = [tasks EXCEPT ![t].st = "done"]
                /\ UNCHANGED ctxs
           ELSE IF tasks[t].current_pos_ \in dc.throws_at
           THEN /\ tasks' = [tasks EXCEPT ![t].st = "threw"]
                /\ UNCHANGED ctxs
           ELSE /\ ctxs' = [ctxs EXCEPT ![tasks[t].ctx] =
                                [DCHandlerCall(@, pattern, tasks[t].chunk_idx, r.token)
                                    EXCEPT !.writers = @ \cup {t}]]
                /\ tasks' = [tasks EXCEPT ![t].current_pos_ = r.current_pos_,
                                          ![t].chunk_idx = @ + 1]
    /\ UNCHANGED <<unitVars, srch, source, pattern, workers, rr, procs, handlers, rrOut, dc, dcOut>>

RECURSIVE SumSize(_, _)
SumSize(cs, n) == IF n = 0 THEN 0 ELSE Len(cs[n].chunks_findings) + SumSize(cs, n - 1)

\* boost::accumulate(all_chunks_findings, 0, sum + item.size())
DCFindingsNumber(cs) == SumSize(cs, Len(cs))

\* a wait() that returns when the workers have exited, whatever they ended by
WaitReturnsQuietly(ts) == \A t \in 1..Len(ts) : ts[t].st \in {"done", "threw"}

\* wait() returns: every worker.get() has returned, which takes every task
\* to have ended without an exception
WaitReturns(ts) == \A t \in 1..Len(ts) : ts[t].st = "done"

\* task_processor.wait() returns, then the number of findings is printed
DCWaitCount ==
    /\ dc.pc = "wait"
    /\ WaitReturns(tasks)
    /\ dcOut' = Append(dcOut, [sink |-> "number", n |-> DCFindingsNumber(ctxs)])
    /\ dc' = [dc EXCEPT !.pc = "sink", !.ctx = 1, !.at = 1, !.chunk_offset = 0]
    /\ UNCHANGED <<unitVars, srch, source, pattern, workers, rr, procs, handlers, rrOut, tasks, ctxs>>

\* the inner loop of the sink loop: chunk_findings.first += chunk_offset and the
\* entry is sent to findings_sink; the event keeps, beside the entry, the
\* context it came from and its line number before the recovery
DCSink ==
    /\ dc.pc = "sink"
    /\ dc.ctx <= Len(ctxs)
    /\ dc.at <= Len(ctxs[dc.ctx].chunks_findings)
    /\ LET entry == ctxs[dc.ctx].chunks_findings[dc.at]
           recovered == <<entry[1] + dc.chunk_offset, entry[2]>>
       IN  /\ ctxs' = [ctxs EXCEPT ![dc.ctx].chunks_findings[dc.at] = recovered]
           /\ dcOut' = Append(dcOut, [sink |-> "findings", chunk |-> recovered,
                                      ctx |-> dc.ctx, local |-> entry[1]])
    /\ dc' = [dc EXCEPT !.at = @ + 1]
    /\ UNCHANGED <<unitVars, srch, source, pattern, workers, rr, procs, handlers, rrOut, tasks>>

\* the outer loop of the sink loop: chunk_offset += ctx.last_chunk_idx(), next
\* context; the call returns after the last one
DCNextCtx ==
    /\ dc.pc = "sink"
    /\ dc.ctx <= Len(ctxs)
    /\ dc.at > Len(ctxs[dc.ctx].chunks_findings)
    /\ dc' = [dc EXCEPT !.chunk_offset = @ + ctxs[dc.ctx].last_chunk_idx,
                        !.ctx = @ + 1, !.at = 1,
                        !.pc = IF dc.ctx = Len(ctxs) THEN "done" ELSE "sink"]
    /\ UNCHANGED <<unitVars, srch, source, pattern, workers, rr, procs, handlers, rrOut, tasks, ctxs, dcOut>>

\* task_processor.wait() throws: worker.get() of a worker whose task has
\* thrown rethrows the exception, which leaves wait() and divide_and_conquer
DCWaitThrow ==
    /\ dc.pc = "wait"
    /\ \E t \in 1..Len(tasks) : tasks[t].st = "threw"
    /\ dc' = [dc EXCEPT !.pc = "unwind"]
    /\ UNCHANGED <<unitVars, srch, source, pattern, workers, rr, procs, handlers, rrOut, tasks, ctxs, dcOut>>

\* the destructor of task_processor while the exception propagates: the
\* futures of the workers wait for the workers, which leave io_.run() when
\* no task is left; then the exception leaves divide_and_conquer
DCUnwind ==
    /\ dc.pc = "unwind"
    /\ \A t \in 1..Len(tasks) : tasks[t].st \in {"done", "threw"}
    /\ dc' = [dc EXCEPT !.pc = "failed"]
    /\ UNCHANGED <<unitVars, srch, source, pattern, workers, rr, procs, handlers, rrOut, tasks, ctxs, dcOut>>

DCNext ==
    \/ DCBegin \/ DCPost \/ DCWaitCount \/ DCSink \/ DCNextCtx
    \/ \E t \in 1..Len(tasks) : TaskStart(t) \/ TaskStep(t)

----------------------------------------------------------------------------
(* The scan: a source, a pattern and a worker count; round_robin, then        *)
(* divide_and_conquer on the same input.                                      *)

Init ==
    /\ srch = SrchOff
    /\ source \in Sources
    /\ pattern \in SeqsUpTo(ScanPatBytes, 1, MaxScanPatLen)
    /\ workers \in 1..MaxWorkers
    /\ RRInit
    /\ DCIdle
    /\ UnitsOff

Next == RRNext \/ DCNext

Spec == Init /\ [][Next]_vars

----------------------------------------------------------------------------
(* The scan with a chunk handler that throws: on one chunk index in          *)
(* round_robin, or on the chunk at one offset of the source in                *)
(* divide_and_conquer.                                                         *)

FaultSources == SeqsUpTo(LineBytes, 0, MaxSrcLen)

InitFault ==
    /\ srch = SrchOff
    /\ source \in FaultSources
    /\ pattern \in SeqsUpTo(ScanPatBytes, 1, 1)
    /\ workers \in 1..MaxWorkers
    /\ \E f \in 0..MaxSrcLen :
          \/ RRInitThrowing({f}) /\ DCIdle
          \/ RRInit /\ DCIdleThrowing({f})
    /\ UnitsOff

RRNextFault == RRNext \/ RRUnwind

DCNextFault == DCNext \/ DCWaitThrow \/ DCUnwind

NextFault == RRNextFault \/ DCNextFault

SpecFault == InitFault /\ [][NextFault]_vars

----------------------------------------------------------------------------
(* A RangeSplitter over a byte range, a RangeSplitter over input iterators    *)
(* and a StreamSplitter<char> over a stream, all of the same bytes and        *)
(* delimiter, each called in the loop                                         *)
(*     for (auto chunk = splitter(); splitter; chunk = splitter()) ...        *)

SplitBytes == {CH_a, CH_NL, CH_SP}
SplitDelims == {CH_NL, CH_SP}

RECURSIVE CopyUntil(_, _, _)
\* while (first_ != last_ && *first_ != delim_) { *out = *first_; ++first_; ++out; }
\* the position first_ stops at
CopyUntil(text, first_, delim_) ==
    IF first_ # Len(text) /\ text[first_ + 1] # delim_
    THEN CopyUntil(text, first_ + 1, delim_)
    ELSE first_

\* RangeSplitter::operator()(out) of the input-iterator splitter: the bytes
\* written to out, the advanced first_ and eorange_
InputSplitterCall(text, first_, delim_) ==
    LET eorange_ == (Len(text) = first_)
        stop == CopyUntil(text, first_, delim_)
    IN  IF ~eorange_
        THEN [token |-> SubSeq(text, first_ + 1, stop),
              first_ |-> IF stop # Len(text) THEN stop + 1 ELSE stop,
              eorange_ |-> FALSE]
        ELSE [token |-> <<>>, first_ |-> first_, eorange_ |-> TRUE]

\* a getline that reports a failure only when called on a stream at its end
GetLineLateFail(text, is_, delim_) ==
    IF is_.eofbit \/ is_.failbit
    THEN [token |-> <<>>, is_ |-> [is_ EXCEPT !.failbit = TRUE]]
    ELSE LET d == StdFind(text, is_.pos, Len(text), delim_)
         IN  IF d # Len(text)
             THEN [token |-> SubSeq(text, is_.pos + 1, d),
                   is_ |-> [is_ EXCEPT !.pos = d + 1]]
             ELSE [token |-> SubSeq(text, is_.pos + 1, d),
                   is_ |-> [is_ EXCEPT !.pos = d, !.eofbit = TRUE]]

\* std::getline(is_, token, delim_): the sentry fails on a stream that is not
\* good; bytes are extracted up to the delimiter, which is extracted and
\* dropped, or up to the end, which sets eofbit; failbit is set when nothing
\* was extracted
GetLine(text, is_, delim_) ==
    IF is_.eofbit \/ is_.failbit
    THEN [token |-> <<>>, is_ |-> [is_ EXCEPT !.failbit = TRUE]]
    ELSE LET d == StdFind(text, is_.pos, Len(text), delim_)
         IN  IF d # Len(text)
             THEN [token |-> SubSeq(text, is_.pos + 1, d),
                   is_ |-> [is_ EXCEPT !.pos = d + 1]]
             ELSE [token |-> SubSeq(text, is_.pos + 1, d),
                   is_ |-> [is_ EXCEPT !.pos = d, !.eofbit = TRUE,
                                       !.failbit = (is_.pos = Len(text))]]

\* StreamSplitter<char>::operator bool(): static_cast<bool>(is_)
StreamSplitterBool(is_) == ~is_.failbit

SplitOff == [pc |-> "off"]

SplitInit ==
    \E text \in SeqsUpTo(SplitBytes, 0, MaxSplitLen) : \E delim \in SplitDelims :
        split = [pc |-> "run", text |-> text, delim |-> delim,
                 range |-> [current_pos_ |-> 0, eorange_ |-> FALSE, calls |-> 0, chunks |-> <<>>],
                 input |-> [first_ |-> 0, eorange_ |-> FALSE, calls |-> 0, chunks |-> <<>>],
                 stream |-> [is_ |-> [pos |-> 0, eofbit |-> FALSE, failbit |-> FALSE],
                             calls |-> 0, chunks |-> <<>>]]

\* one call of the random-access splitter; the loop keeps the token, with the
\* offsets it spans, unless the splitter is exhausted
RangeSplitterNext ==
    /\ split.pc = "run"
    /\ ~split.range.eorange_
    /\ LET r == RangeSplitterCall(split.text, Len(split.text), split.range.current_pos_, split.delim)
           b == split.range.current_pos_
       IN  split' = [split EXCEPT
                        !.range.current_pos_ = r.current_pos_,
                        !.range.eorange_ = r.eorange_,
                        !.range.calls = @ + 1,
                        !.range.chunks = IF r.eorange_ THEN @
                                         ELSE Append(@, [b |-> b, e |-> b + Len(r.token),
                                                         bytes |-> r.token])]
    /\ UNCHANGED <<srch, stratVars, tok, tcp, mtp>>

\* one call of the input-iterator splitter
InputSplitterNext ==
    /\ split.pc = "run"
    /\ ~split.input.eorange_
    /\ LET r == InputSplitterCall(split.text, split.input.first_, split.delim)
       IN  split' = [split EXCEPT
                        !.input.first_ = r.first_,
                        !.input.eorange_ = r.eorange_,
                        !.input.calls = @ + 1,
                        !.input.chunks = IF r.eorange_ THEN @ ELSE Append(@, r.token)]
    /\ UNCHANGED <<srch, stratVars, tok, tcp, mtp>>

\* one call of the stream splitter
StreamSplitterNext ==
    /\ split.pc = "run"
    /\ StreamSplitterBool(split.stream.is_)
    /\ LET r == GetLine(split.text, split.stream.is_, split.delim)
       IN  split' = [split EXCEPT
                        !.stream.is_ = r.is_,
                        !.stream.calls = @ + 1,
                        !.stream.chunks = IF StreamSplitterBool(r.is_)
                                          THEN Append(@, r.token) ELSE @]
    /\ UNCHANGED <<srch, stratVars, tok, tcp, mtp>>

InitSplit ==
    /\ SplitInit
    /\ srch = SrchOff /\ StratOff
    /\ tok = [pc |-> "off"] /\ tcp = [pc |-> "off"] /\ mtp = [pc |-> "off"]

NextSplit == RangeSplitterNext \/ InputSplitterNext \/ StreamSplitterNext

SpecSplit == InitSplit /\ [][NextSplit]_vars

----------------------------------------------------------------------------
(* A RangeTokenizer over one line, its searcher the comparator-based          *)
(* BoyerMooreSearcher with the comparator of the application.                 *)

LineTextBytes == {CH_a, CH_b}

TokInit ==
    \E line \in SeqsUpTo(LineTextBytes, 0, MaxLineLen) :
    \E pat \in SeqsUpTo(ScanPatBytes, 1, MaxScanPatLen) :
        tok = [pc |-> "loop", line |-> line, pat |-> pat,
               first |-> 0, calls |-> 0, tokens |-> <<>>]

\* one turn of the loop of RangeTokenizer::operator()(first, last, out): the
\* condition, the call of the searcher, the break on an empty token or the
\* token written to out
RangeTokenizerTurn ==
    /\ tok.pc = "loop"
    /\ IF ~TokenizerLoopCond(tok.first, Len(tok.line))
       THEN tok' = [tok EXCEPT !.pc = "done"]
       ELSE LET token == BoyerMooreSearcher(tok.line, tok.pat, ScanComparator, tok.first)
            IN  IF TokenEmpty(token)
                THEN tok' = [tok EXCEPT !.calls = @ + 1, !.pc = "done"]
                ELSE tok' = [tok EXCEPT !.calls = @ + 1,
                                        !.first = ResumeAt(token),
                                        !.tokens = Append(@, token)]
    /\ UNCHANGED <<srch, stratVars, split, tcp, mtp>>

InitTok ==
    /\ TokInit
    /\ srch = SrchOff /\ StratOff
    /\ split = [pc |-> "off"] /\ tcp = [pc |-> "off"] /\ mtp = [pc |-> "off"]

NextTok == RangeTokenizerTurn

SpecTok == InitTok /\ [][NextTok]_vars

\* the same run with the empty pattern among the patterns
TokInitAny ==
    \E line \in SeqsUpTo(LineTextBytes, 0, MaxLineLen) :
    \E pat \in SeqsUpTo(ScanPatBytes, 0, MaxScanPatLen) :
        tok = [pc |-> "loop", line |-> line, pat |-> pat,
               first |-> 0, calls |-> 0, tokens |-> <<>>]

InitTokAny ==
    /\ TokInitAny
    /\ srch = SrchOff /\ StratOff
    /\ split = [pc |-> "off"] /\ tcp = [pc |-> "off"] /\ mtp = [pc |-> "off"]

SpecTokAny == InitTokAny /\ [][NextTok]_vars

----------------------------------------------------------------------------
(* ThreadedChunkProcessor on its own: one client thread that pushes chunks
   and calls start(), stop() and the destructor in any order, and the worker
   threads that start() launches.  The chunks are numbered as they are
   offered.  The queue is the sequence of all chunks pushed so far together
   with the read index of the consumer side; a pop reads the index and the
   element and then stores the advanced index. *)

MaxChunks == 4
MaxStarts == 2
MaxStops == 2

\* a future without a shared state, and the local variables of a worker
NoThread == [pc |-> "none", phase |-> "loop", r |-> 0]

\* the thread that std::async launches in start()
NewThread == [pc |-> "test", phase |-> "loop", r |-> 0]

\* a constructor that launches the worker
WorkerAtConstructionRunning == NewThread

\* worker_ after the constructor
WorkerAtConstruction == NoThread

TCPInit ==
    tcp = [pc |-> "idle", stop_token_ |-> FALSE,
           pushed |-> <<>>, read_index_ |-> 0,
           worker_ |-> WorkerAtConstruction, old |-> NoThread,
           handled |-> <<>>,
           offered |-> 0, starts |-> 0, stops |-> 0,
           started |-> FALSE, joined |-> FALSE, at_stop |-> 0]

\* number of chunks in the queue
QueueSize == Len(tcp.pushed) - tcp.read_index_

\* the element a pop that has read index r takes from the queue
QueuePopBack(q, r) == q[Len(q)]

QueueFront(q, r) == q[r + 1]

\* operator()(chunk): queue_.push, which fails on a full queue
TCPPush ==
    /\ tcp.pc = "idle"
    /\ tcp.offered < MaxChunks
    /\ IF QueueSize < QueueCapacity
       THEN tcp' = [tcp EXCEPT !.offered = @ + 1,
                               !.pushed = Append(@, tcp.offered + 1),
                               !.joined = FALSE]
       ELSE tcp' = [tcp EXCEPT !.offered = @ + 1]
    /\ UNCHANGED <<srch, stratVars, split, tok, mtp>>

\* start(): launches a worker unless the stop token is set and move-assigns
\* its future to worker_.  Assigning over a future that still refers to a
\* running worker blocks in the release of that worker's state: the worker
\* leaves its loop only on the stop token, which only stop() sets.
TCPStart ==
    /\ tcp.pc = "idle"
    /\ tcp.starts < MaxStarts
    /\ IF tcp.stop_token_
       THEN tcp' = [tcp EXCEPT !.starts = @ + 1]
       ELSE IF tcp.worker_.pc = "none"
            THEN tcp' = [tcp EXCEPT !.starts = @ + 1, !.started = TRUE,
                                    !.joined = FALSE,
                                    !.worker_ = NewThread]
            ELSE tcp' = [tcp EXCEPT !.starts = @ + 1, !.started = TRUE,
                                    !.joined = FALSE,
                                    !.old = tcp.worker_,
                                    !.worker_ = NewThread,
                                    !.pc = "start_assign"]
    /\ UNCHANGED <<srch, stratVars, split, tok, mtp>>

\* stop() up to worker_.get(): nothing without a valid future, else the stop
\* token is set
TCPStop ==
    /\ tcp.pc = "idle"
    /\ tcp.stops < MaxStops
    /\ IF tcp.worker_.pc = "none"
       THEN tcp' = [tcp EXCEPT !.stops = @ + 1]
       ELSE tcp' = [tcp EXCEPT !.stops = @ + 1,
                               !.stop_token_ = TRUE,
                               !.at_stop = QueueSize,
                               !.pc = "stop_get"]
    /\ UNCHANGED <<srch, stratVars, split, tok, mtp>>

\* a stop() that returns with the stop token still set
TCPStopJoinKeepsToken ==
    /\ tcp.pc = "stop_get"
    /\ tcp.worker_.pc = "done"
    /\ tcp' = [tcp EXCEPT !.worker_ = NoThread,
                          !.joined = TRUE,
                          !.pc = "idle"]
    /\ UNCHANGED <<srch, stratVars, split, tok, mtp>>

\* stop() from the return of worker_.get(), which leaves the future without
\* a state: the stop token is cleared
TCPStopJoin ==
    /\ tcp.pc = "stop_get"
    /\ tcp.worker_.pc = "done"
    /\ tcp' = [tcp EXCEPT !.worker_ = NoThread,
                          !.stop_token_ = FALSE,
                          !.joined = TRUE,
                          !.pc = "idle"]
    /\ UNCHANGED <<srch, stratVars, split, tok, mtp>>

\* the defaulted destructor: the future of a worker that still runs blocks
\* in its destructor
TCPDestroy ==
    /\ tcp.pc = "idle"
    /\ tcp' = [tcp EXCEPT !.pc = IF tcp.worker_.pc = "none"
                                 THEN "destroyed" ELSE "dtor"]
    /\ UNCHANGED <<srch, stratVars, split, tok, mtp>>

\* the worker after it has read a set stop token: the second loop
NoDrainPhase == [pc |-> "done", phase |-> "drain", r |-> 0]

DrainPhase == [pc |-> "pop", phase |-> "drain", r |-> 0]

Slots == {"worker_", "old"}

\* while (!stop_token_): the read of the stop token
TCPWorkerTest(s) ==
    /\ tcp[s].pc = "test"
    /\ tcp' = [tcp EXCEPT ![s] = IF tcp.stop_token_
                                 THEN DrainPhase
                                 ELSE [@ EXCEPT !.pc = "pop"]]
    /\ UNCHANGED <<srch, stratVars, split, tok, mtp>>

\* queue_.pop(chunk), first half: the read of the indices; on an empty queue
\* pop returns false, which repeats the first loop and ends the second
TCPWorkerPop(s) ==
    /\ tcp[s].pc = "pop"
    /\ IF tcp.read_index_ = Len(tcp.pushed)
       THEN tcp' = [tcp EXCEPT ![s].pc = IF tcp[s].phase = "loop"
                                         THEN "test" ELSE "done"]
       ELSE tcp' = [tcp EXCEPT ![s].pc = "commit",
                               ![s].r = tcp.read_index_]
    /\ UNCHANGED <<srch, stratVars, split, tok, mtp>>

\* queue_.pop(chunk), second half: the element is taken and the advanced
\* read index stored
TCPWorkerCommit(s) ==
    /\ tcp[s].pc = "commit"
    /\ tcp' = [tcp EXCEPT ![s].pc = "handle",
                          !.read_index_ = tcp[s].r + 1]
    /\ UNCHANGED <<srch, stratVars, split, tok, mtp>>

\* handler_(std::move(chunk))
TCPWorkerHandle(s) ==
    /\ tcp[s].pc = "handle"
    /\ tcp' = [tcp EXCEPT ![s].pc = IF tcp[s].phase = "loop"
                                    THEN "test" ELSE "pop",
                          ![s].r = 0,
                          !.handled = Append(@, QueueFront(tcp.pushed, tcp[s].r))]
    /\ UNCHANGED <<srch, stratVars, split, tok, mtp>>

InitTCP ==
    /\ TCPInit
    /\ srch = SrchOff /\ StratOff
    /\ split = [pc |-> "off"] /\ tok = [pc |-> "off"] /\ mtp = [pc |-> "off"]

NextTCP ==
    \/ TCPPush
    \/ TCPStart
    \/ TCPStop
    \/ TCPStopJoin
    \/ TCPDestroy
    \/ \E s \in Slots : TCPWorkerTest(s)
    \/ \E s \in Slots : TCPWorkerPop(s)
    \/ \E s \in Slots : TCPWorkerCommit(s)
    \/ \E s \in Slots : TCPWorkerHandle(s)

SpecTCP == InitTCP /\ [][NextTCP]_vars

----------------------------------------------------------------------------
(* MultithreadedTaskProcessor on its own: one client thread that calls run(),
   operator()(task), wait() and stop() in any order, and the workers that
   run() launches into io_.run().  Of the io_service the model keeps the
   queue of posted handlers, the stopped flag and the count of outstanding
   work: one for the work object, one for every handler posted and not yet
   finished.  The count reaching zero stops the io_service; a stopped
   io_service runs no handler until reset().  The tasks are numbered as they
   are submitted. *)

MaxPoolWorkers == 2
MaxTasks == 3

\* the constructor's workers > 0 ? workers : 1
WorkersSize(n) == IF n > 0 THEN n ELSE 1

NoWorker == [pc |-> "none", task |-> 0]

MTPInit ==
    \E n \in 0..MaxPoolWorkers :
        mtp = [pc |-> "idle", work_ |-> FALSE, stopped |-> FALSE,
               queue |-> <<>>,
               workers_ |-> [w \in 1..WorkersSize(n) |-> NoWorker],
               done |-> <<>>, submitted |-> 0, idle_tasks |-> {},
               cancelled |-> {}, cycle |-> 0, fresh |-> {},
               joined |-> FALSE, aborted |-> FALSE]

\* handlers being executed by the workers
Executing(ws) == Cardinality({w \in DOMAIN ws : ws[w].pc = "exec"})

\* an io_service that does not count a posted handler as work
OutstandingWorkUnposted(work, queue, executing) ==
    (IF work THEN 1 ELSE 0) + executing

\* outstanding work of the io_service
OutstandingWork(work, queue, executing) ==
    (IF work THEN 1 ELSE 0) + Len(queue) + executing

\* operator()(task): io_.post; idle_tasks keeps the tasks submitted while no
\* work object exists (before run(), or after a wait()), fresh those
\* submitted to a processor that runs again after a wait()
MTPSubmit ==
    /\ mtp.pc = "idle"
    /\ mtp.submitted < MaxTasks
    /\ mtp' = [mtp EXCEPT !.submitted = @ + 1,
                          !.queue = Append(@, mtp.submitted + 1),
                          !.idle_tasks = IF mtp.work_ THEN @
                                         ELSE @ \cup {mtp.submitted + 1},
                          !.fresh = IF mtp.work_ /\ mtp.cycle > 1
                                    THEN @ \cup {mtp.submitted + 1} ELSE @,
                          !.joined = FALSE]
    /\ UNCHANGED <<srch, stratVars, split, tok, tcp>>

\* a run() without the test of work_
MTPRunUnguarded ==
    /\ mtp.pc = "idle"
    /\ mtp' = [mtp EXCEPT !.stopped = FALSE,
                          !.work_ = TRUE,
                          !.workers_ = [w \in DOMAIN @ |-> [pc |-> "start", task |-> 0]],
                          !.joined = FALSE,
                          !.aborted = FALSE,
                          !.cycle = Min(@ + 1, 2)]
    /\ UNCHANGED <<srch, stratVars, split, tok, tcp>>

\* run(): nothing while work_ is set; else io_.reset(), a new work object
\* and one std::async worker per element of workers_; cycle tells the first
\* run() that takes effect from the later ones
MTPRun ==
    /\ mtp.pc = "idle"
    /\ IF mtp.work_
       THEN mtp' = [mtp EXCEPT !.joined = FALSE]
       ELSE mtp' = [mtp EXCEPT !.stopped = FALSE,
                               !.work_ = TRUE,
                               !.workers_ = [w \in DOMAIN @ |-> [pc |-> "start", task |-> 0]],
                               !.joined = FALSE,
                               !.aborted = FALSE,
                               !.cycle = Min(@ + 1, 2)]
    /\ UNCHANGED <<srch, stratVars, split, tok, tcp>>

\* wait() up to the first worker.get(): work_.reset(), which finishes the
\* work of the work object
MTPWait ==
    /\ mtp.pc = "idle"
    /\ mtp' = [mtp EXCEPT !.work_ = FALSE,
                          !.stopped = @ \/ (mtp.work_ /\
                              OutstandingWork(FALSE, mtp.queue, Executing(mtp.workers_)) = 0),
                          !.joined = FALSE,
                          !.pc = "wait_get"]
    /\ UNCHANGED <<srch, stratVars, split, tok, tcp>>

\* wait() from the last worker.get(): every valid future has been waited
\* for and is left without a state
MTPWaitReturn ==
    /\ mtp.pc = "wait_get"
    /\ \A w \in DOMAIN mtp.workers_ : mtp.workers_[w].pc \in {"none", "done"}
    /\ mtp' = [mtp EXCEPT !.workers_ = [w \in DOMAIN @ |-> NoWorker],
                          !.joined = \E w \in DOMAIN mtp.workers_ :
                                         mtp.workers_[w].pc = "done",
                          !.pc = "idle"]
    /\ UNCHANGED <<srch, stratVars, split, tok, tcp>>

\* stop(): io_.stop(); cancelled keeps the tasks that the queue of a running
\* processor holds at that moment
MTPStop ==
    /\ mtp.pc = "idle"
    /\ mtp' = [mtp EXCEPT !.stopped = TRUE, !.aborted = TRUE, !.joined = FALSE,
                          !.cancelled = IF mtp.work_
                                        THEN @ \cup {mtp.queue[i] : i \in DOMAIN mtp.queue}
                                        ELSE @]
    /\ UNCHANGED <<srch, stratVars, split, tok, tcp>>

\* a worker enters io_.run(), which stops the io_service and returns when
\* there is no outstanding work
MTPWorkerRun(w) ==
    /\ mtp.workers_[w].pc = "start"
    /\ IF OutstandingWork(mtp.work_, mtp.queue, Executing(mtp.workers_)) = 0
       THEN mtp' = [mtp EXCEPT !.stopped = TRUE, !.workers_[w].pc = "done"]
       ELSE mtp' = [mtp EXCEPT !.workers_[w].pc = "loop"]
    /\ UNCHANGED <<srch, stratVars, split, tok, tcp>>

\* io_.run() takes the next handler off the queue of an io_service that is
\* not stopped
MTPWorkerTake(w) ==
    /\ mtp.workers_[w].pc = "loop"
    /\ ~mtp.stopped
    /\ mtp.queue # <<>>
    /\ mtp' = [mtp EXCEPT !.queue = Tail(@),
                          !.workers_[w] = [pc |-> "exec", task |-> Head(mtp.queue)]]
    /\ UNCHANGED <<srch, stratVars, split, tok, tcp>>

\* the handler returns: the task is done and its work finished
MTPWorkerFinish(w) ==
    /\ mtp.workers_[w].pc = "exec"
    /\ LET ws == [mtp.workers_ EXCEPT ![w] = [pc |-> "loop", task |-> 0]]
       IN  mtp' = [mtp EXCEPT !.workers_ = ws,
                              !.done = Append(@, mtp.workers_[w].task),
                              !.stopped = @ \/
                                  OutstandingWork(mtp.work_, mtp.queue, Executing(ws)) = 0]
    /\ UNCHANGED <<srch, stratVars, split, tok, tcp>>

\* io_.run() returns from a stopped io_service
MTPWorkerExit(w) ==
    /\ mtp.workers_[w].pc = "loop"
    /\ mtp.stopped
    /\ mtp' = [mtp EXCEPT !.workers_[w].pc = "done"]
    /\ UNCHANGED <<srch, stratVars, split, tok, tcp>>

InitMTP ==
    /\ MTPInit
    /\ srch = SrchOff /\ StratOff
    /\ split = [pc |-> "off"] /\ tok = [pc |-> "off"] /\ tcp = [pc |-> "off"]

NextMTP ==
    \/ MTPSubmit
    \/ MTPRun
    \/ MTPWait
    \/ MTPWaitReturn
    \/ MTPStop
    \/ \E w \in DOMAIN mtp.workers_ : MTPWorkerRun(w)
    \/ \E w \in DOMAIN mtp.workers_ : MTPWorkerTake(w)
    \/ \E w \in DOMAIN mtp.workers_ : MTPWorkerFinish(w)
    \/ \E w \in DOMAIN mtp.workers_ : MTPWorkerExit(w)

SpecMTP == InitMTP /\ [][NextMTP]_vars

----------------------------------------------------------------------------
(* Properties of the searchers (checked under SpecSearch) *)

SrchDone == srch.pc = "done"

\* the pattern is accepted, position by position, by some window of the text
Occurs(text, pat, comp) ==
    \E s \in 0..(Len(text) - Len(pat)) :
        \A j \in 1..Len(pat) : <<text[s + j], pat[j]>> \in comp

\* the leftmost window of the text the comparator accepts, or the empty range at
\* the end of the text
LeftmostWindow(text, pat, comp) ==
    IF Occurs(text, pat, comp)
    THEN LET s == CHOOSE s \in 0..(Len(text) - Len(pat)) :
                    /\ \A j \in 1..Len(pat) : <<text[s + j], pat[j]>> \in comp
                    /\ \A t \in 0..(s - 1) :
                          \E j \in 1..Len(pat) : <<text[t + j], pat[j]>> \notin comp
         IN  <<s, s + Len(pat)>>
    ELSE <<Len(text), Len(text)>>

\* C6: for every literal non-empty pattern and every text, the table-based
\* BoyerMooreSearcher returns the range NaiveSearcher returns, the leftmost
\* occurrence of the pattern or the empty range at the end of the text.
C6_TableMatchesNaive ==
    (SrchDone /\ srch.kind = "literal" /\ Len(srch.pat) >= 1)
        => /\ srch.bm = srch.naive
           /\ srch.bm = LeftmostWindow(srch.text, srch.pat, EqualTo)

\* C7: for every non-empty pattern, every comparator and every text, the
\* comparator-based BoyerMooreSearcher returns the range the comparator-based
\* NaiveSearcher returns: the leftmost window accepted position by position, or
\* the empty range at the end of the text.
C7_ComparatorMatchesNaive ==
    (SrchDone /\ srch.kind = "comp" /\ Len(srch.pat) >= 1)
        => /\ srch.bm = srch.naive
           /\ srch.bm = LeftmostWindow(srch.text, srch.pat, srch.comp)

\* C7 witness: the application's comparator, a pattern with a wildcard, and a
\* match found after the window was moved by more than one byte in one shift
C7_Witness ==
    /\ SrchDone /\ srch.kind = "comp"
    /\ srch.comp = {cp \in TextBytes \X MaskedPatBytes : masked_pattern_comparator(cp[1], cp[2])}
    /\ \E j \in 1..Len(srch.pat) : srch.pat[j] = CH_QM
    /\ srch.passes = 2 /\ srch.bm[1] >= 2 /\ srch.bm[2] = srch.bm[1] + Len(srch.pat)

----------------------------------------------------------------------------
(* The sequential scan the strategies are compared with *)

\* the offsets at which a line of the text starts: the start of the text and
\* the byte after each delimiter, unless that is the end of the text
LineStarts(text) ==
    ({0} \cup {i + 1 : i \in {j \in 0..(Len(text) - 1) : text[j + 1] = CH_NL}}) \ {Len(text)}

LinesCount(text) == Cardinality(LineStarts(text))

\* the offset of the delimiter that closes the line starting at s, or the end
LineEnd(text, s) ==
    CHOOSE e \in s..Len(text) :
        /\ e = Len(text) \/ text[e + 1] = CH_NL
        /\ \A j \in s..(e - 1) : text[j + 1] # CH_NL

\* the pattern, with '?' standing for any byte, lies at offset i before e
MatchAt(text, pat, i, e) ==
    /\ i + Len(pat) <= e
    /\ \A k \in 1..Len(pat) : pat[k] = CH_QM \/ text[i + k] = pat[k]

RECURSIVE GreedyMatches(_, _, _, _)
\* left to right from offset i up to e: the offsets of the matches, the scan
\* resuming behind each match
GreedyMatches(text, pat, i, e) ==
    IF i + Len(pat) > e THEN <<>>
    ELSE IF MatchAt(text, pat, i, e)
         THEN <<i>> \o GreedyMatches(text, pat, i + Len(pat), e)
         ELSE GreedyMatches(text, pat, i + 1, e)

\* the findings of line n, which starts at s, as (line, offset, bytes)
LineFindings(text, pat, s, n) ==
    LET at == GreedyMatches(text, pat, s, LineEnd(text, s))
    IN  [k \in 1..Len(at) |-> <<n, at[k] - s + 1, SubSeq(text, at[k] + 1, at[k] + Len(pat))>>]

RECURSIVE ScanFrom(_, _, _, _)
\* the findings of line n, which starts at s, and of the lines after it
ScanFrom(text, pat, s, n) ==
    IF s \notin LineStarts(text) THEN <<>>
    ELSE LineFindings(text, pat, s, n) \o ScanFrom(text, pat, LineEnd(text, s) + 1, n + 1)

\* the findings of the sequential scan of the text
SequentialScan(text, pat) == ScanFrom(text, pat, 0, 1)

----------------------------------------------------------------------------
(* What the sinks received *)

IsFinding(e) == e.sink = "finding"
IsFindings(e) == e.sink = "findings"
IsNumber(e) == e.sink = "number"

\* the tuples round_robin sent to findings_sink, in order
RRFindings ==
    LET es == SelectSeq(rrOut, IsFinding) IN [k \in 1..Len(es) |-> es[k].f]

\* the entries divide_and_conquer sent to findings_sink, in order
DCEntries == SelectSeq(dcOut, IsFindings)

RECURSIVE Flatten(_)
\* the findings of a sequence of entries (line, [(offset, bytes)]) as tuples
\* (line, offset, bytes)
Flatten(es) ==
    IF es = <<>> THEN <<>>
    ELSE LET c == Head(es).chunk
         IN  [k \in 1..Len(c[2]) |-> <<c[1], c[2][k][1], c[2][k][2]>>] \o Flatten(Tail(es))

DCFindings == Flatten(DCEntries)

RRDone == rr.pc = "done"
DCDone == dc.pc = "done"

\* round_robin has returned and divide_and_conquer is not called yet; what
\* round_robin wrote is left unchanged by divide_and_conquer
RRReturned == RRDone /\ dc.pc = "idle"

\* (line, offset) of f is before (line, offset) of g
Before(f, g) == f[1] < g[1] \/ (f[1] = g[1] /\ f[2] < g[2])

StrictlyAscending(fs) == \A k \in 1..(Len(fs) - 1) : Before(fs[k], fs[k + 1])

\* all the chunk indices the handlers were called with
AllCalls == UNION {{<<h, k>> : k \in DOMAIN handlers[h].calls} : h \in DOMAIN handlers}

RECURSIVE SumLastChunkIdx(_)
\* the sum of last_chunk_idx over the contexts 1..n
SumLastChunkIdx(n) == IF n = 0 THEN 0 ELSE ctxs[n].last_chunk_idx + SumLastChunkIdx(n - 1)

----------------------------------------------------------------------------
(* Properties of the strategies (checked under Spec) *)

\* C1: for every source, non-empty pattern, worker count and interleaving,
\* round_robin sends to the finding sink exactly the findings of the sequential
\* scan, with the global 1-based line number and the 1-based offset in the
\* line; no chunk the producer read is lost or handled twice.
C1_RoundRobinIsSequentialScan ==
    /\ Cardinality({handlers[c[1]].calls[c[2]] : c \in AllCalls}) = Cardinality(AllCalls)
    /\ RRReturned =>
          /\ RRFindings = SequentialScan(source, pattern)
          /\ {handlers[c[1]].calls[c[2]] : c \in AllCalls} = 0..(LinesCount(source) - 1)

\* C1 witness: three workers, the two processors both found something, and a
\* line gave more than one finding
C1_Witness ==
    /\ RRDone /\ workers = 3
    /\ handlers[1].findings_ # <<>> /\ handlers[2].findings_ # <<>>
    /\ \E k \in DOMAIN RRFindings : RRFindings[k][2] > 1

\* C2: for both strategies and any worker count, the findings reach the finding
\* sink strictly ascending in (line number, offset in the line), whatever the
\* order the workers handled their chunks in.  (What round_robin sent is
\* final once divide_and_conquer is called, so it is looked at before.)
C2_FindingsAscending ==
    /\ dc.pc = "idle" => StrictlyAscending(RRFindings)
    /\ dc.pc # "idle" => StrictlyAscending(DCFindings)

\* C2 witness: both strategies have returned; round_robin merged the findings
\* of two handlers, one of which holds the lines before and after a line of
\* the other; divide_and_conquer delivered entries of two contexts
C2_Witness ==
    /\ RRDone /\ DCDone /\ workers = 3
    /\ \E i, k \in DOMAIN handlers[1].findings_ : \E j \in DOMAIN handlers[2].findings_ :
          /\ handlers[1].findings_[i][1] < handlers[2].findings_[j][1]
          /\ handlers[2].findings_[j][1] < handlers[1].findings_[k][1]
    /\ \E e, g \in {DCEntries[k] : k \in DOMAIN DCEntries} : e.ctx # g.ctx

\* C3: divide_and_conquer delivers each finding with the global 1-based number
\* of its line, for every source (runs of delimiters included) and every worker
\* count (more workers than lines included); the number is the line number
\* local to the worker plus the sum of last_chunk_idx of the workers before it,
\* and a worker without a range contributes 0.
C3_GlobalLineNumbers ==
    DCDone =>
        /\ DCFindings = SequentialScan(source, pattern)
        /\ \A k \in DOMAIN DCEntries :
              DCEntries[k].chunk[1] = DCEntries[k].local + SumLastChunkIdx(DCEntries[k].ctx - 1)
        /\ \A c \in (Len(tasks) + 1)..Len(ctxs) :
              ctxs[c].last_chunk_idx = 0 /\ ctxs[c].chunks_findings = <<>>

\* C3 witness: a source with a run of delimiters, fewer tasks than workers, and
\* a finding of the second context delivered with a recovered line number
C3_Witness ==
    /\ DCDone
    /\ Len(tasks) < W
    /\ \E i \in 1..(Len(source) - 1) : source[i] = CH_NL /\ source[i + 1] = CH_NL
    /\ \E k \in DOMAIN DCEntries :
          DCEntries[k].ctx = 2 /\ DCEntries[k].chunk[1] > DCEntries[k].local + 1

\* C4: on the same source and pattern and for any worker count,
\* divide_and_conquer and round_robin deliver the same findings: line numbers,
\* offsets, bytes and order.
C4_StrategiesAgree ==
    (RRDone /\ DCDone) => DCFindings = RRFindings

\* C4 witness: both strategies have returned after delivering findings of
\* several lines, one of them with several findings
C4_Witness ==
    /\ RRDone /\ DCDone
    /\ workers >= 2
    /\ Len(DCEntries) >= 2
    /\ \E k \in DOMAIN DCEntries : Len(DCEntries[k].chunk[2]) >= 2

----------------------------------------------------------------------------
(* The output as a function of the input *)

RECURSIVE SingleWorkerFindings(_, _, _, _)
\* handle_rr with one handler: the findings_ of the handler after the chunks
\* from current_pos_ on were read and handled one after the other
SingleWorkerFindings(text, pat, current_pos_, chunk_idx) ==
    LET r == RangeSplitterCall(text, Len(text), current_pos_, CH_NL)
    IN  IF r.eorange_ THEN <<>>
        ELSE ChunkHandlerBaseCall(pat, chunk_idx, r.token)
             \o SingleWorkerFindings(text, pat, r.current_pos_, chunk_idx + 1)

\* what round_robin sends to its sinks when workers_count is 1
SingleWorkerOutput(text, pat) ==
    LET fs == SingleWorkerFindings(text, pat, 0, 0)
    IN  <<[sink |-> "number", n |-> Len(fs)]>>
        \o [k \in 1..Len(fs) |-> [sink |-> "finding", f |-> fs[k]]]

RECURSIVE SingleTaskFindings(_, _, _, _, _)
\* the one task of divide_and_conquer with one worker: the context after the
\* chunks from current_pos_ on were read and handled
SingleTaskFindings(ctx, text, pat, current_pos_, chunk_idx) ==
    LET r == RangeSplitterCall(text, Len(text), current_pos_, CH_NL)
    IN  IF r.eorange_ THEN ctx
        ELSE SingleTaskFindings(DCHandlerCall(ctx, pat, chunk_idx, r.token),
                                text, pat, r.current_pos_, chunk_idx + 1)

\* what divide_and_conquer prints and sends to its sink when workers_count is 1
SingleTaskOutput(text, pat) ==
    LET ctx == SingleTaskFindings(NewHandlerCtx, text, pat, 0, 0)
    IN  <<[sink |-> "number", n |-> Len(ctx.chunks_findings)]>>
        \o [k \in 1..Len(ctx.chunks_findings) |->
               [sink |-> "findings", chunk |-> ctx.chunks_findings[k]]]

\* the events of divide_and_conquer without the bookkeeping of the model
DCOutput ==
    [k \in 1..Len(dcOut) |->
        IF IsFindings(dcOut[k])
        THEN [sink |-> "findings", chunk |-> dcOut[k].chunk]
        ELSE dcOut[k]]

\* C5: the output of a scan, count and findings, is a function of the source
\* and the pattern: every run, under every interleaving and with any worker
\* count, gives the output of the run with one worker.
C5_OutputIsFunctionOfInput ==
    /\ RRReturned => rrOut = SingleWorkerOutput(source, pattern)
    /\ DCDone => DCOutput = SingleTaskOutput(source, pattern)

\* C5 witness: a run with three workers and several tasks in which both
\* strategies delivered at least two findings
C5_Witness ==
    /\ RRDone /\ DCDone /\ workers = 3
    /\ Len(rrOut) >= 3 /\ Len(dcOut) >= 3
    /\ Len(tasks) >= 2

\* C9: round_robin passes to the count sink the number of calls of the finding
\* sink that follow in the same run: the count comes first, the findings sent
\* never exceed it, and on return they are as many.
C9_CountIsNumberOfSinkCalls ==
    /\ dc.pc = "idle" =>
          /\ \A k \in DOMAIN rrOut : IsNumber(rrOut[k]) <=> k = 1
          /\ rrOut # <<>> => Len(RRFindings) <= rrOut[1].n
    /\ RRReturned => (rrOut # <<>> /\ rrOut[1].n = Len(RRFindings))

\* C9 witness: a count above the number of lines with findings, and all the
\* findings delivered
C9_Witness ==
    /\ RRDone /\ workers >= 2
    /\ rrOut[1].n >= 3
    /\ Cardinality({RRFindings[k][1] : k \in DOMAIN RRFindings}) = 2

\* C10: divide_and_conquer emits as total count the number of matches in the
\* source, a line with several matches contributing each of them.
C10_CountIsNumberOfMatches ==
    DCDone => /\ dcOut[1].sink = "number"
              /\ dcOut[1].n = Len(DCFindings)
              /\ dcOut[1].n = Len(SequentialScan(source, pattern))

\* the positions in rrOut of the calls of findings_number_sink
NumberCalls == {k \in DOMAIN rrOut : IsNumber(rrOut[k])}

\* the positions in rrOut of the calls of findings_sink
FindingCalls == {k \in DOMAIN rrOut : IsFinding(rrOut[k])}

\* C11: in one run of round_robin the count sink is called exactly once, and
\* that call precedes the first call of the finding sink; it is called, with
\* 0, also when there are no findings.
C11_CountOnceBeforeFindings ==
    dc.pc = "idle" =>
        /\ Cardinality(NumberCalls) <= 1
        /\ \A f \in FindingCalls : \E c \in NumberCalls : c < f
        /\ RRDone => Cardinality(NumberCalls) = 1
        /\ (RRDone /\ FindingCalls = {}) => rrOut = <<[sink |-> "number", n |-> 0]>>

\* C11 witness: a run with processors over a source with lines but no match,
\* which has returned after the one call of the count sink
C11_Witness ==
    /\ RRReturned /\ workers >= 2
    /\ LinesCount(source) >= 2
    /\ rrOut = <<[sink |-> "number", n |-> 0]>>

----------------------------------------------------------------------------
(* Properties of the splitters (checked under SpecSplit) *)

RangeExhausted == split.pc = "run" /\ split.range.eorange_
InputExhausted == split.pc = "run" /\ split.input.eorange_
StreamExhausted == split.pc = "run" /\ ~StreamSplitterBool(split.stream.is_)

\* the offsets of the text that hold the delimiter
DelimitersAt(text, delim) == {i \in 0..(Len(text) - 1) : text[i + 1] = delim}

\* the number of maximal delimiter-free pieces: one closed by each delimiter,
\* and one left open at the end of a text that does not end with a delimiter
PiecesCount(text, delim) ==
    Cardinality(DelimitersAt(text, delim))
        + (IF Len(text) > 0 /\ text[Len(text)] # delim THEN 1 ELSE 0)

\* C12: the calls of the random-access RangeSplitter yield, in order, exactly
\* the maximal delimiter-free sub-ranges of the source, the delimiters
\* removed: an empty chunk between adjacent delimiters and before a leading
\* one, none after a trailing one, the final undelimited chunk as it is; the
\* chunks are as many as the delimiters, plus one when the source is not empty
\* and does not end with a delimiter.
C12_ChunksAreMaximalPieces ==
    /\ split.pc = "run" =>
          \A k \in DOMAIN split.range.chunks :
             LET c == split.range.chunks[k]
             IN  /\ c.b = (IF k = 1 THEN 0 ELSE split.range.chunks[k - 1].e + 1)
                 /\ c.bytes = SubSeq(split.text, c.b + 1, c.e)
                 /\ \A i \in c.b..(c.e - 1) : split.text[i + 1] # split.delim
                 /\ c.e = Len(split.text) \/ split.text[c.e + 1] = split.delim
    /\ RangeExhausted =>
          /\ Len(split.range.chunks) = PiecesCount(split.text, split.delim)
          /\ split.range.calls = PiecesCount(split.text, split.delim) + 1

\* C12 witness: a source with a leading delimiter, two adjacent delimiters and
\* a trailing delimiter, split to the end
C12_Witness ==
    /\ RangeExhausted
    /\ Len(split.text) >= 4
    /\ split.text[1] = split.delim /\ split.text[Len(split.text)] = split.delim
    /\ \E i \in 1..(Len(split.text) - 1) :
          split.text[i] = split.delim /\ split.text[i + 1] = split.delim
    /\ \E k \in DOMAIN split.range.chunks : split.range.chunks[k].bytes # <<>>

\* the chunks of the random-access splitter as byte sequences
RangeChunks == [k \in DOMAIN split.range.chunks |-> split.range.chunks[k].bytes]

\* C13: over the same bytes and delimiter the stream splitter and the
\* random-access RangeSplitter yield the same chunks in the same order and are
\* exhausted after the same number of calls; so does the RangeSplitter over
\* input iterators.
C13_SplittersAgree ==
    /\ (RangeExhausted /\ StreamExhausted) =>
          /\ split.stream.chunks = RangeChunks
          /\ split.stream.calls = split.range.calls
    /\ (RangeExhausted /\ InputExhausted) =>
          /\ split.input.chunks = RangeChunks
          /\ split.input.calls = split.range.calls

\* C13 witness: all three splitters exhausted over a source that holds an
\* empty chunk, ends with a delimiter and holds the other delimiter as a byte
C13_Witness ==
    /\ RangeExhausted /\ StreamExhausted /\ InputExhausted
    /\ Len(split.stream.chunks) >= 2
    /\ \E k \in DOMAIN split.stream.chunks : split.stream.chunks[k] = <<>>
    /\ split.text[Len(split.text)] = split.delim
    /\ \E i \in DOMAIN split.text : split.text[i] \in SplitDelims \ {split.delim}

----------------------------------------------------------------------------
(* Properties of the tokenizer (checked under SpecTok) *)

TokDone == tok.pc = "done"

\* the offsets of the matches of the line, scanned left to right, each scan
\* resumed behind the match before
LineMatches == GreedyMatches(tok.line, tok.pat, 0, Len(tok.line))

\* C14: within one line the matches of the tokenizer do not overlap and are
\* found left to right, each search starting at the end of the match before:
\* the offset of a finding is at least the offset of the one before plus the
\* length of the pattern.
C14_MatchesDoNotOverlap ==
    tok.pc # "off" =>
        /\ \A k \in DOMAIN tok.tokens :
              /\ tok.tokens[k][2] = tok.tokens[k][1] + Len(tok.pat)
              /\ k > 1 => tok.tokens[k][1] >= tok.tokens[k - 1][1] + Len(tok.pat)
        /\ TokDone => [k \in DOMAIN tok.tokens |-> tok.tokens[k][1]] = LineMatches

\* C14 witness: two matches of a two-byte pattern that touch, over a line in
\* which a match starts at every offset
C14_Witness ==
    /\ TokDone
    /\ Len(tok.pat) = 2 /\ Len(tok.line) = 4
    /\ \A i \in 0..2 : MatchAt(tok.line, tok.pat, i, Len(tok.line))
    /\ Len(tok.tokens) = 2 /\ tok.tokens[1][1] = 0 /\ tok.tokens[2][1] = 2

\* C15 as stated: for every line with k matches the searcher is invoked
\* exactly k + 1 times.
C15_SearcherCalledOncePerMatchPlusOne ==
    TokDone => tok.calls = Len(LineMatches) + 1

\* the scan of the line ends with the range used up: the line is empty or its
\* last match ends at its end
LineUsedUp ==
    \/ tok.line = <<>>
    \/ /\ LineMatches # <<>>
       /\ LineMatches[Len(LineMatches)] + Len(tok.pat) = Len(tok.line)

\* C15 amended: for a line with k matches the searcher is invoked k + 1 times,
\* the last call returning empty, unless the line is empty or its last match
\* ends at the end of the line: then it is invoked exactly k times.
C15_SearcherCallsAmended ==
    TokDone => /\ Len(tok.tokens) = Len(LineMatches)
               /\ tok.calls = Len(LineMatches) + (IF LineUsedUp THEN 0 ELSE 1)

\* C15 witness: a line with two matches and bytes left behind the second, on
\* which the searcher was called a third time
C15_Witness ==
    /\ TokDone
    /\ Len(tok.tokens) = 2 /\ tok.tokens[2][2] < Len(tok.line)
    /\ tok.calls = 3

----------------------------------------------------------------------------
(* Properties of the findings of the chunk handlers (checked under Spec) *)

\* the offset at which line n of the text starts
LineStartOf(text, n) ==
    CHOOSE s \in LineStarts(text) : Cardinality({t \in LineStarts(text) : t <= s}) = n

\* (L, O, B) is a finding of the pattern in the text: B has the length of
\* the pattern, is the bytes of line L from its byte O on, lies inside the
\* line, and agrees with the pattern wherever the pattern is not '?'
WellFormedFinding(text, pat, f) ==
    /\ f[1] \in 1..LinesCount(text)
    /\ f[2] >= 1
    /\ Len(f[3]) = Len(pat)
    /\ LET s == LineStartOf(text, f[1])
       IN  /\ s + f[2] - 1 + Len(pat) <= LineEnd(text, s)
           /\ f[3] = SubSeq(text, s + f[2], s + f[2] - 1 + Len(pat))
    /\ \A j \in DOMAIN f[3] : f[3][j] # CH_NL
    /\ \A j \in DOMAIN pat : pat[j] = CH_QM \/ f[3][j] = pat[j]

\* C16: every finding (L, O, B) of a chunk handler has |B| = |P|, B the bytes
\* of line L from position O - 1 (0-based) on, inside the line and free of the
\* delimiter, and at every position the pattern byte is '?' or the byte of B.
C16_FindingsAreWellFormed ==
    dc.pc = "idle" =>
        \A h \in DOMAIN handlers : \A k \in DOMAIN handlers[h].findings_ :
            WellFormedFinding(source, pattern, handlers[h].findings_[k])

\* C16 witness: a finding behind the first byte of a line behind the first
\* line, in which a '?' of the pattern stands for a byte 'b'
C16_Witness ==
    /\ RRDone
    /\ \E h \in DOMAIN handlers : \E k \in DOMAIN handlers[h].findings_ :
          LET f == handlers[h].findings_[k]
          IN  /\ f[1] >= 2 /\ f[2] >= 2
              /\ \E j \in DOMAIN pattern : pattern[j] = CH_QM /\ f[3][j] = CH_b

----------------------------------------------------------------------------
(* Properties of ThreadedChunkProcessor (checked under SpecTCP) *)

IsPrefix(a, b) == Len(a) <= Len(b) /\ SubSeq(b, 1, Len(a)) = a

\* C17: when a stop() that has set the stop token returns, every chunk
\* pushed before it has been passed to the handler, whatever the worker was
\* doing and however many chunks the queue still held when the token was set.
C17_StopDrainsQueue ==
    (tcp.pc # "off" /\ tcp.joined) =>
        \A i \in DOMAIN tcp.pushed :
            \E j \in DOMAIN tcp.handled : tcp.handled[j] = tcp.pushed[i]

\* C17 witness: stop() has returned after it set the stop token with two
\* chunks in the queue
C17_Witness ==
    /\ tcp.pc = "idle" /\ tcp.joined
    /\ tcp.at_stop = 2
    /\ Len(tcp.handled) >= 2

C19_NotStartedNeverHandles ==
    (tcp.pc # "off" /\ ~tcp.started) => tcp.handled = <<>>

\* C19 witness: chunks were pushed, stop() was called and the processor
\* destroyed without a start()
C19_Witness ==
    /\ tcp.pc = "destroyed" /\ ~tcp.started
    /\ tcp.stops >= 1 /\ Len(tcp.pushed) >= 1
    /\ tcp.handled = <<>>

----------------------------------------------------------------------------
(* Properties of MultithreadedTaskProcessor (checked under SpecMTP) *)

\* C20: no task is ever executed twice, and when a wait() on a pool that
\* run() has started and stop() has not stopped returns, every task
\* submitted has been executed, no task is left in the queue and every
\* worker has left io_.run(), whatever the number of workers.
C20_WaitReturnsAfterAllTasks ==
    mtp.pc # "off" =>
        /\ \A i, j \in DOMAIN mtp.done : mtp.done[i] = mtp.done[j] => i = j
        /\ (mtp.joined /\ ~mtp.aborted) =>
              /\ \A t \in 1..mtp.submitted : \E i \in DOMAIN mtp.done : mtp.done[i] = t
              /\ mtp.queue = <<>>
              /\ \A w \in DOMAIN mtp.workers_ : mtp.workers_[w].pc = "none"

\* C20 witness: run(), three tasks, wait() on two workers, the tasks done out
\* of the order of their submission
C20_Witness ==
    /\ mtp.pc = "idle" /\ mtp.joined /\ ~mtp.aborted
    /\ Len(mtp.workers_) = 2
    /\ mtp.submitted = 3 /\ Len(mtp.done) = 3
    /\ mtp.done[1] # 1

\* C21: a task submitted while the processor is idle is never executed,
\* neither through a following wait() nor after a later run().
C21_IdleSubmissionDiscarded ==
    mtp.pc # "off" =>
        \A i \in DOMAIN mtp.done : mtp.done[i] \notin mtp.idle_tasks

\* C22: after stop() on a running processor the tasks that were submitted
\* and not yet started are never executed (a task that is running completes,
\* and the workers exit so that a following wait() returns).
C22_StoppedTasksNeverExecuted ==
    mtp.pc # "off" =>
        \A i \in DOMAIN mtp.done : mtp.done[i] \notin mtp.cancelled

----------------------------------------------------------------------------
(* Properties of the scan with a throwing chunk handler (checked under       *)
(* SpecFault)                                                                 *)

\* the chunk handler has thrown in a worker of round_robin
RRThrown ==
    /\ W >= 2
    /\ \/ \E p \in DOMAIN procs : procs[p].worker_ = "threw"
       \/ rr.pc \in {"unwind", "failed"}

\* C23: once a chunk handler has thrown in an external worker of round_robin,
\* no sink is called, round_robin goes on until it has left with the failure
\* (it is never in a state where neither it nor a worker can take a step),
\* and when it has left no worker is running.
C23_WorkerFailurePropagates ==
    RRThrown =>
        /\ rrOut = <<>>
        /\ rr.pc = "failed" \/ ENABLED RRNextFault
        /\ rr.pc = "failed" => \A p \in DOMAIN procs : procs[p].worker_ = "none"

\* a task of divide_and_conquer has ended by an exception of its handler
DCThrown == \E t \in DOMAIN tasks : tasks[t].st = "threw"

\* C24: once a task body has thrown in divide_and_conquer, neither the count
\* nor a finding is emitted, the call goes on until it has left with the
\* failure (it is never in a state where neither it nor a task can take a
\* step), and when it has left every task has ended.
C24_TaskFailurePropagates ==
    DCThrown =>
        /\ dcOut = <<>>
        /\ dc.pc = "failed" \/ ENABLED DCNextFault
        /\ dc.pc = "failed" => \A t \in DOMAIN tasks : tasks[t].st \in {"done", "threw"}

\* C24 witness: divide_and_conquer has left with the failure of one task
\* while the context of another task holds findings
C24_Witness ==
    /\ dc.pc = "failed"
    /\ \E t \in DOMAIN tasks : \E c \in DOMAIN ctxs :
          /\ c # t
          /\ tasks[t].st = "threw"
          /\ ctxs[c].chunks_findings # <<>>
    /\ dcOut = <<>>

----------------------------------------------------------------------------
(* Further properties of the two strategies (checked under Spec) *)

\* the output of a scan without a finding: the count 0 and nothing else
CountZeroOnly == <<[sink |-> "number", n |-> 0]>>

\* C25: on an empty source no chunk is handled and no task is made, whatever
\* the number of workers; round_robin, with its workers started and stopped,
\* and divide_and_conquer both come to their end, each with the count 0 as
\* its whole output.
C25_EmptySourceCountsZero ==
    source = <<>> =>
        /\ \A h \in DOMAIN handlers : handlers[h].calls = <<>>
        /\ tasks = <<>>
        /\ rrOut = IF rr.pc = "done" THEN CountZeroOnly ELSE <<>>
        /\ dcOut = IF dc.pc \in {"sink", "done"} THEN CountZeroOnly ELSE <<>>
        /\ rr.pc = "done" => \A p \in DOMAIN procs : procs[p].worker_ = "none"
        /\ (rr.pc = "done" /\ dc.pc = "done") \/ ENABLED Next

\* C25 witness: both strategies have returned on the empty source with three
\* workers
C25_Witness ==
    /\ source = <<>> /\ workers = 3
    /\ rr.pc = "done" /\ dc.pc = "done"
    /\ rrOut = CountZeroOnly /\ dcOut = CountZeroOnly

----------------------------------------------------------------------------
(* The shift of the table-based searcher (checked under SpecSearch) *)

\* C26: when the window of the literal Boyer-Moore searcher mismatches, from
\* the right, at pattern index k against the text byte c, the window advances
\* by k - last_occurrence[c] if k > last_occurrence[c] (-1 for a byte that is
\* not in the pattern), and by exactly 1 otherwise.
C26_ShiftIsBadCharacterRule ==
    LET m == Len(srch.pat)
        r == MismatchRev(srch.text, srch.pat, EqualTo, srch.first)
        k == (m - r) - 1
        c == srch.text[srch.first + k + 1]
        last_occurrence == PatternOffsets(srch.pat, c)
    IN  (/\ srch.pc = "bm" /\ srch.kind = "literal"
         /\ m >= 1 /\ m <= Len(srch.text) - srch.first
         /\ r # m)
        => TableSearchPass(srch.text, srch.pat, srch.first).first - srch.first
               = IF k > last_occurrence THEN k - last_occurrence ELSE 1

----------------------------------------------------------------------------
(* Properties of the tasks of divide_and_conquer (checked under Spec) *)

\* the chunks a splitter yields for the range [first, last) of the text
ChunksOfRange(text, first, last) == PiecesCount(SubSeq(text, first + 1, last), CH_NL)

\* C27: the last_chunk_idx of the context of a task is the number of chunks
\* the task has handed to its handler so far, with or without a match, empty
\* or not; once the task has processed its range it is the number of chunks
\* the splitter yields for the range, and it is 0 for a context without a task.
C27_LastChunkIdxCountsChunks ==
    dc.pc \notin {"off", "idle"} =>
        \A c \in DOMAIN ctxs :
            IF c \in DOMAIN tasks
            THEN /\ ctxs[c].last_chunk_idx = tasks[c].chunk_idx
                 /\ tasks[c].st = "done" =>
                        ctxs[c].last_chunk_idx
                            = ChunksOfRange(source, tasks[c].first, tasks[c].last)
            ELSE ctxs[c].last_chunk_idx = 0

\* C27 witness: all tasks are done, one of them went through two chunks or
\* more, the last of them without a match, and one context got no task
C27_Witness ==
    /\ dc.pc = "wait"
    /\ Len(tasks) >= 1 /\ Len(tasks) < Len(ctxs)
    /\ \A t \in DOMAIN tasks : tasks[t].st = "done"
    /\ \E t \in DOMAIN tasks :
          /\ ctxs[t].last_chunk_idx >= 2
          /\ \A k \in DOMAIN ctxs[t].chunks_findings :
                ctxs[t].chunks_findings[k][1] < ctxs[t].last_chunk_idx
    /\ ctxs[Len(ctxs)].last_chunk_idx = 0

\* C28: generate_chunk_handlers_tasks makes at most W ranges; they are not
\* empty, follow one another without a gap from the start to the end of the
\* source, every range but the last is at least max(1, size / W) bytes long,
\* and every range but the first begins right behind a delimiter and not
\* with a delimiter, so that no run of delimiters lies across a cut.
C28_RangesPartitionAtDelimiters ==
    dc.pc \notin {"off", "idle"} =>
        LET n == Len(tasks)
        IN  /\ n <= W
            /\ (n = 0) = (source = <<>>)
            /\ n > 0 => tasks[1].first = 0 /\ tasks[n].last = Len(source)
            /\ \A t \in 1..n : tasks[t].first < tasks[t].last
            /\ \A t \in 1..(n - 1) :
                  /\ tasks[t].last = tasks[t + 1].first
                  /\ tasks[t].last - tasks[t].first >= Max(1, Len(source) \div W)
            /\ \A t \in 2..n :
                  /\ source[tasks[t].first] = CH_NL
                  /\ source[tasks[t].first + 1] # CH_NL

\* C28 witness: three ranges, one of them cut behind a run of two delimiters
C28_Witness ==
    /\ dc.pc = "post"
    /\ Len(tasks) = 3
    /\ \E t \in 2..3 :
          /\ source[tasks[t].first] = CH_NL
          /\ source[tasks[t].first - 1] = CH_NL

----------------------------------------------------------------------------
(* Threads and handlers.                                                    *)

\* C29: during a scan every chunk handler instance is written by at most one
\* thread: no two processors of round_robin hold the same handler, a handler
\* of round_robin is called by the worker of one processor only (by the
\* calling thread only when there is no external worker), no two tasks of
\* divide_and_conquer hold the same context and a context is written by the
\* handler of one task only
C29_HandlerHasOneWriter ==
    /\ \A p, q \in DOMAIN procs : p # q => procs[p].handler # procs[q].handler
    /\ \A h \in DOMAIN handlers :
          /\ Cardinality(handlers[h].threads) <= 1
          /\ handlers[h].threads \subseteq
                (IF W < 2 THEN {CallerThread}
                 ELSE {p \in DOMAIN procs : procs[p].handler = h})
    /\ \A t, u \in DOMAIN tasks : t # u => tasks[t].ctx # tasks[u].ctx
    /\ \A c \in DOMAIN ctxs :
          /\ Cardinality(ctxs[c].writers) <= 1
          /\ ctxs[c].writers \subseteq {t \in DOMAIN tasks : tasks[t].ctx = c}

\* two workers of round_robin have each written their handler, and two tasks
\* of divide_and_conquer that run at the same time have each written their
\* context
C29_Witness ==
    /\ W = 3
    /\ handlers[1].threads = {1} /\ handlers[2].threads = {2}
    /\ \E t, u \in DOMAIN tasks :
          /\ t # u
          /\ tasks[t].st = "running" /\ tasks[u].st = "running"
          /\ ctxs[tasks[t].ctx].writers = {t}
          /\ ctxs[tasks[u].ctx].writers = {u}

\* C30: the count sink and the finding sink are called only after every worker
\* thread has exited and only from the thread that called the strategy: a step
\* that appends to the output of round_robin is a step of the caller behind
\* the stop loop, with every worker joined, and touches no worker nor handler;
\* a step that appends to the output of divide_and_conquer is a step of the
\* caller at or behind wait(), with every task ended, and touches no task
C30_SinksAfterWorkersExit ==
    [][/\ rrOut' # rrOut =>
            /\ rr.pc \in {"count", "merge"}
            /\ \A p \in DOMAIN procs :
                  procs[p].worker_ = "none" /\ procs[p].queue_ = <<>>
            /\ procs' = procs /\ handlers' = handlers
       /\ dcOut' # dcOut =>
            /\ dc.pc \in {"wait", "sink"}
            /\ \A t \in DOMAIN tasks : tasks[t].st = "done"
            /\ tasks' = tasks]_vars

\* both strategies have sent findings to their sinks after two workers of
\* round_robin and two tasks of divide_and_conquer had written their handlers
C30_Witness ==
    /\ W = 3
    /\ handlers[1].threads = {1} /\ handlers[2].threads = {2}
    /\ \E k \in DOMAIN rrOut : rrOut[k].sink = "finding"
    /\ \E c, d \in DOMAIN ctxs : c # d /\ ctxs[c].writers # {} /\ ctxs[d].writers # {}
    /\ \E k \in DOMAIN dcOut : dcOut[k].sink = "findings"

----------------------------------------------------------------------------
(* round_robin under a fair scheduler: the calling thread and the worker of *)
(* every processor each take a step eventually when they can.  The handler  *)
(* does not throw.                                                          *)

InitLive ==
    /\ srch = SrchOff
    /\ source \in FaultSources
    /\ pattern \in SeqsUpTo(ScanPatBytes, 1, 1)
    /\ workers \in 1..MaxWorkers
    /\ RRInit
    /\ DCIdle
    /\ UnitsOff

\* the steps of the thread that called round_robin
RRCaller ==
    \/ RRStart \/ RRFeed \/ RRHandle \/ RRStopSet \/ RRStopJoin
    \/ RRCount \/ RRMerge

\* the steps of the worker thread of processor p
RRWorker(p) ==
    p \in DOMAIN procs /\ (WorkerPop(p) \/ WorkerSeeStop(p) \/ WorkerDrain(p))

NextLive == RRCaller \/ \E p \in 1..ProcessorsCount : RRWorker(p)

SpecLive ==
    /\ InitLive /\ [][NextLive]_vars
    /\ WF_vars(RRCaller)
    /\ \A p \in 1..(MaxWorkers - 1) : WF_vars(RRWorker(p))

\* the producer is in rr_handler with a chunk for a processor whose queue is full
ProducerSpins ==
    /\ rr.pc = "feed"
    /\ ~RangeSplitterCall(source, Len(source), rr.current_pos_, CH_NL).eorange_
    /\ Len(procs[rr.cur_proc].queue_) >= QueueCapacity

\* C33: round_robin terminates for every finite input under fair scheduling,
\* also with more chunks than a queue holds: no queue ever holds more than
\* its capacity and round_robin returns, so that no spin of the producer on
\* a full queue and no stop() lasts forever
C33_RoundRobinTerminates ==
    /\ [](\A p \in DOMAIN procs : Len(procs[p].queue_) <= QueueCapacity)
    /\ <>(rr.pc = "done")

\* the producer spins on the full queue of a processor whose worker runs
C33_Witness ==
    /\ ProducerSpins
    /\ procs[rr.cur_proc].worker_ = "loop"

----------------------------------------------------------------------------
(* Routing of round_robin.                                                  *)

RECURSIVE SourceChunksFrom(_, _)
\* the chunks that the reader of the strategies yields from current_pos_ on
SourceChunksFrom(text, current_pos_) ==
    LET r == RangeSplitterCall(text, Len(text), current_pos_, CH_NL)
    IN  IF r.eorange_ THEN <<>>
        ELSE <<r.token>> \o SourceChunksFrom(text, r.current_pos_)

\* the chunks of the source, in the order of the reader
SourceChunks == SourceChunksFrom(source, 0)

\* the indices of the chunks that processor p has been given so far: those its
\* handler was called with, then those still in its queue
ReceivedBy(p) ==
    handlers[procs[p].handler].calls
        \o [k \in DOMAIN procs[p].queue_ |-> procs[p].queue_[k].idx]

\* the indices below n that are congruent to i modulo m, ascending
RECURSIVE IndicesOfClass(_, _, _)
IndicesOfClass(n, m, i) ==
    IF n = 0 THEN <<>>
    ELSE IndicesOfClass(n - 1, m, i) \o (IF (n - 1) % m = i THEN <<n - 1>> ELSE <<>>)

\* C31: in round_robin with W >= 2 there are W - 1 processors and chunk k of
\* the source (empty chunks counted) goes to processor k mod (W - 1): what
\* processor i (0-based) has been given so far are exactly the indices k
\* below the number of chunks routed with k mod (W - 1) = i, and a queued chunk
\* carries the k-th chunk of the source under the index k
C31_ChunksRoutedModulo ==
    W >= 2 =>
        /\ DOMAIN procs = 1..(W - 1)
        /\ \A p \in DOMAIN procs :
              /\ ReceivedBy(p) = IndicesOfClass(rr.chunk_idx, W - 1, p - 1)
              /\ \A k \in DOMAIN procs[p].queue_ :
                    procs[p].queue_[k].value = SourceChunks[procs[p].queue_[k].idx + 1]

\* with two processors three chunks have been routed, the second of them
\* empty and given to the second processor, the third given to the first
C31_Witness ==
    /\ W = 3 /\ rr.chunk_idx = 3
    /\ SourceChunks[2] = <<>>
    /\ ReceivedBy(1) = <<0, 2>> /\ ReceivedBy(2) = <<1>>

----------------------------------------------------------------------------
(* Order of a worker's findings.                                            *)

\* fs is in non-decreasing (chunk index, offset in the chunk) order
NonDecreasing(fs) == \A k \in 1..(Len(fs) - 1) : ~Before(fs[k + 1], fs[k])

\* the entries of a context of divide_and_conquer as (chunk index, offset) pairs
CtxFindings(c) ==
    Flatten([k \in DOMAIN ctxs[c].chunks_findings |->
                [chunk |-> ctxs[c].chunks_findings[k]]])

\* the scan of divide_and_conquer: from the call until wait() has returned
DCScanning == dc.pc \in {"post", "wait"}

\* C32: at every moment of a scan the findings list of every worker is in
\* non-decreasing (chunk index, offset in the chunk) order, and the chunk
\* indices that one handler of round_robin was called with are strictly
\* increasing
C32_WorkerFindingsOrdered ==
    /\ \A h \in DOMAIN handlers :
          /\ NonDecreasing(handlers[h].findings_)
          /\ \A k \in 1..(Len(handlers[h].calls) - 1) :
                handlers[h].calls[k] < handlers[h].calls[k + 1]
    /\ DCScanning => \A c \in DOMAIN ctxs : NonDecreasing(CtxFindings(c))

\* a worker of round_robin that still runs holds two findings of one chunk
\* and a finding of a later chunk
C32_Witness ==
    \E p \in DOMAIN procs :
        /\ procs[p].worker_ = "loop"
        /\ LET fs == handlers[procs[p].handler].findings_
           IN  \E i, j, k \in DOMAIN fs :
                  /\ i < j /\ j < k
                  /\ fs[i][1] = fs[j][1] /\ fs[i][2] < fs[j][2]
                  /\ fs[j][1] < fs[k][1]

----------------------------------------------------------------------------
(* The cycle of a ThreadedChunkProcessor.                                   *)

\* C34: once stop() has returned on a started processor (and until the next
\* push or start()) no worker is left, the queue is empty and the stop token
\* is cleared, and every chunk pushed so far, in this cycle or an earlier
\* one, has been handled exactly once; and while start() has never been
\* called, stop() leaves no trace: no token, no worker, nothing popped
C34_StopReturnsToIdle ==
    /\ (tcp.pc # "off" /\ tcp.joined) =>
            /\ tcp.pc \in {"idle", "destroyed"}
            /\ tcp.worker_ = NoThread /\ tcp.old = NoThread
            /\ QueueSize = 0
            /\ ~tcp.stop_token_
            /\ tcp.handled = tcp.pushed
    /\ (tcp.pc # "off" /\ ~tcp.started) =>
            /\ tcp.pc \in {"idle", "destroyed"}
            /\ tcp.worker_ = NoThread
            /\ ~tcp.stop_token_ /\ ~tcp.joined
            /\ tcp.read_index_ = 0 /\ tcp.handled = <<>>

\* the second stop() of two start() / stop() cycles has returned; it found
\* chunks in the queue, which was empty after the first cycle
C34_Witness ==
    /\ tcp.pc = "idle" /\ tcp.joined
    /\ tcp.starts = 2 /\ tcp.stops = 2
    /\ tcp.at_stop > 0
    /\ tcp.handled = tcp.pushed /\ Len(tcp.pushed) >= 2

----------------------------------------------------------------------------
(* Termination of the Boyer-Moore searchers.                                *)

\* the pass from the current state compares the pattern with a window
Aligns ==
    /\ srch.pc = "bm"
    /\ srch.pat # <<>>
    /\ Len(srch.pat) <= Len(srch.text) - srch.first

\* C35: both Boyer-Moore searchers terminate: a pass that compares a window
\* and finds a mismatch moves the cursor forward by at least one byte and
\* not beyond the end of the text, a pass that finds a match leaves the cursor
\* where it is, and the number of windows compared never exceeds
\* |T| - |P| + 1
C35_WindowAlwaysAdvances ==
    [][Aligns =>
          /\ srch'.passes <= Len(srch.text) - Len(srch.pat) + 1
          /\ srch'.pc = "bm" =>
                /\ srch'.first >= srch.first + 1
                /\ srch'.first <= Len(srch.text)
          /\ srch'.pc = "done" => srch'.first = srch.first]_vars

----------------------------------------------------------------------------
(* The indices of the last-occurrence table.                                *)

\* C36: every write to and every lookup in the 256-entry last-occurrence
\* table uses an index in [0, 255], for every byte value of the pattern and
\* of the text
C36_TableIndexInRange ==
    srch.kind = "table" => \A k \in DOMAIN srch.used : InRange(srch.used[k])

----------------------------------------------------------------------------
(* Consumers of the queue of a ThreadedChunkProcessor.                      *)

\* the worker threads that are in their loops
Consumers == {s \in Slots : tcp[s].pc \notin {"none", "done"}}

\* C37: across any sequence of start(), push and stop() on one processor at
\* most one worker thread consumes from its queue at any time
C37_OneConsumer ==
    tcp.pc # "off" => Cardinality(Consumers) <= 1

----------------------------------------------------------------------------
(* The lifecycle of a MultithreadedTaskProcessor.                           *)

\* the number of times task t has been executed
TimesDone(t) == Cardinality({i \in DOMAIN mtp.done : mtp.done[i] = t})

\* C38: run() launches a worker only into an element of workers_ that holds
\* no thread, so that run() on a running processor launches none and there
\* are never more threads than workers_count; once wait() has returned the
\* processor is idle (no work object, no worker); and when wait() returns
\* after a later run() with no stop() in between, every task submitted
\* since that run() has been executed exactly once
C38_PoolLifecycle ==
    [][mtp.pc # "off" =>
          /\ Len(mtp'.workers_) = Len(mtp.workers_)
          /\ \A w \in DOMAIN mtp.workers_ :
                (mtp'.workers_[w].pc = "start" /\ mtp.workers_[w] # mtp'.workers_[w])
                    => mtp.workers_[w].pc = "none"
          /\ mtp'.joined =>
                /\ mtp'.pc = "idle" /\ ~mtp'.work_
                /\ \A w \in DOMAIN mtp'.workers_ : mtp'.workers_[w] = NoWorker
          /\ (mtp'.joined /\ ~mtp'.aborted) =>
                \A t \in mtp'.fresh :
                    Cardinality({i \in DOMAIN mtp'.done : mtp'.done[i] = t}) = 1]_vars

\* wait() has returned from a second run() of two workers, to which two tasks
\* were submitted
C38_Witness ==
    /\ mtp.pc = "idle" /\ mtp.joined /\ ~mtp.aborted
    /\ mtp.cycle = 2 /\ Len(mtp.workers_) = 2
    /\ Cardinality(mtp.fresh) = 2
    /\ \A t \in mtp.fresh : TimesDone(t) = 1

----------------------------------------------------------------------------
(* Termination of the tokenizer.                                            *)

\* C39: RangeTokenizer terminates on every line, also for an empty pattern:
\* a turn of its loop either ends the loop and writes nothing, or writes one
\* non-empty token and moves the cursor strictly forward to the end of that
\* token, within the line; the searcher is called at most once per byte of
\* the line and once more
C39_TokenizerTerminates ==
    [][tok.pc = "loop" =>
          /\ tok'.calls <= Len(tok.line) + 1
          /\ \/ tok'.pc = "done" /\ tok'.tokens = tok.tokens /\ tok'.first = tok.first
             \/ /\ tok'.pc = "loop"
                /\ tok'.first > tok.first /\ tok'.first <= Len(tok.line)
                /\ Len(tok'.tokens) = Len(tok.tokens) + 1
                /\ SubSeq(tok'.tokens, 1, Len(tok.tokens)) = tok.tokens
                /\ LET token == tok'.tokens[Len(tok'.tokens)]
                   IN  /\ tok.first <= token[1] /\ token[1] < token[2]
                       /\ token[2] = tok'.first]_vars

\* the tokenizer has ended on a line of several bytes with the empty pattern
\* after one call of the searcher, with no token
C39_Witness ==
    /\ tok.pc = "done" /\ tok.pat = <<>>
    /\ Len(tok.line) > 1
    /\ tok.calls = 1 /\ tok.tokens = <<>> /\ tok.first = 0

====
